---- MODULE Spec2Model ----
(***************************************************************************)
(* Model of the A2A server of openclaw-a2a (class A2AServer, which lives   *)
(* in src/src/relay-client.ts from line 234 on) and of the protocol types  *)
(* of src/unnamed/part_002 (a2a-types).                                    *)
(*                                                                         *)
(* The server runs on one event loop.  A handler of this model is one run  *)
(* of the code between two suspension points: handleMessageSend is split   *)
(* at its only await (line 557) into MessageSend (lines 471-557) and       *)
(* HandlerReturn / HandlerThrow (lines 559-590); the two capabilities of a *)
(* MessageContext (lines 546-552) are actions of their own, because the    *)
(* callback may use them at any time after it was invoked.                 *)
(***************************************************************************)
EXTENDS Integers, Sequences, FiniteSets, TLC

\* ------------------------------------------------------------------------
\* Bounds of the model
\* ------------------------------------------------------------------------
MaxTasks == 1
MaxCalls == 2
MaxStoreTasks == 2
MaxStoreCalls == 2
MaxClock == 1
MaxArtifacts == 1
MaxListTasks == 3
MaxListCalls == 3

\* ------------------------------------------------------------------------
\* Protocol constants (a2a-types)
\* ------------------------------------------------------------------------
SUBMITTED == "TASK_STATE_SUBMITTED"
WORKING == "TASK_STATE_WORKING"
INPUT_REQUIRED == "TASK_STATE_INPUT_REQUIRED"
COMPLETED == "TASK_STATE_COMPLETED"
FAILED == "TASK_STATE_FAILED"
CANCELED == "TASK_STATE_CANCELED"
REJECTED == "TASK_STATE_REJECTED"

TASK_STATES == {SUBMITTED, WORKING, INPUT_REQUIRED, COMPLETED, FAILED, CANCELED, REJECTED}

TASK_NOT_FOUND == -32001
TASK_NOT_CANCELABLE == -32002
UNSUPPORTED_OPERATION == -32004
INVALID_PARAMS == -32602

TERMINAL_STATES_NoCanceled ==
    {COMPLETED, FAILED, REJECTED, "completed", "failed", "rejected"}

TERMINAL_STATES ==
    {COMPLETED, FAILED, CANCELED, REJECTED, "completed", "failed", "canceled", "rejected"}

\* ------------------------------------------------------------------------
\* JavaScript values, as far as the parameter checks look at them
\* ------------------------------------------------------------------------
\* A value is a record with a field kind; an object or an array carries its
\* content in further fields.
JsUndefined == [kind |-> "undefined"]
JsNull == [kind |-> "null"]
JsEmptyString == [kind |-> "emptystring"]
JsString == [kind |-> "string"]
JsNumber == [kind |-> "number"]

\* !v is false
Truthy(v) == v.kind \notin {"undefined", "null", "emptystring", "zero", "false"}

\* typeof v
TypeOf(v) ==
    CASE v.kind \in {"object", "array", "null"} -> "object"
      [] v.kind \in {"string", "emptystring"} -> "string"
      [] v.kind \in {"number", "zero"} -> "number"
      [] v.kind \in {"true", "false"} -> "boolean"
      [] OTHER -> "undefined"

\* Array.isArray(v)
IsArray(v) == v.kind = "array"

\* v.f: a property of a value that is not an object or an array is undefined
\* (the code reads properties only of values it found truthy)
Prop(v, f) == IF v.kind = "object" /\ f \in DOMAIN v THEN v[f] ELSE JsUndefined

\* Task and context ids are strings in the program; the model writes them as
\* numbers.  0 is an id that is absent or the empty string (both are falsy at
\* lines 503, 512, 517, 518, 594 and 624).
NoId == 0
\* ids a client may send that no randomUUID() call returns
UnknownTaskId == 90
ClientContextIds == {91}

\* randomUUID(): the n-th identifier drawn by this process
RandomUUID_Repeat(n) == 1

RandomUUID(n) == n + 1

\* ------------------------------------------------------------------------
\* Messages, statuses, tasks
\* ------------------------------------------------------------------------
\* A Message as the server stores it.  parts is the sequence of the texts of
\* its parts; a message that is absent (status.message of a status set
\* without one) is NoMessage.
NoMessage == [role |-> "none", messageId |-> "", taskId |-> NoId, contextId |-> NoId, parts |-> <<>>]

Msg(role, messageId, taskId, contextId, parts) ==
    [role |-> role, messageId |-> messageId, taskId |-> taskId, contextId |-> contextId, parts |-> parts]

\* the messageId of the n-th message a client sends: clients number their messages
MessageId(n) == IF n = 1 THEN "m1" ELSE IF n = 2 THEN "m2" ELSE IF n = 3 THEN "m3" ELSE "m4"

\* the agent message a callback answers with (test-server.ts, lines 74-77)
ReplyMessage == Msg("agent", "", NoId, NoId, <<"Echo">>)

\* what a callback may throw, and String(err) of it
Errors == {"boom"}
ErrorText(err) == IF err = "boom" THEN "Error: boom" ELSE "Error"

\* message/send params, as the JavaScript value the checks of lines 473-495
\* look at
MessageValue(messageId, taskId, contextId) ==
    [kind |-> "object",
     parts |-> [kind |-> "array", items |-> <<"Hello">>],
     role |-> [kind |-> "string", text |-> "user"],
     messageId |-> [kind |-> "string", text |-> messageId],
     taskId |-> taskId,
     contextId |-> contextId]

SendParams(message) == [kind |-> "object", message |-> message]

\* the Message a message value that passed the checks stands for
MessageOf(m) == Msg(m.role.text, m.messageId.text, m.taskId, m.contextId, m.parts.items)

\* params that fail one or several of the checks of lines 473-495
BaseMessage == MessageValue("m1", NoId, NoId)
InvalidSendParams ==
    { JsString,
      [kind |-> "object"],
      SendParams(JsString),
      SendParams([kind |-> "object", role |-> BaseMessage.role, messageId |-> BaseMessage.messageId,
                  taskId |-> NoId, contextId |-> NoId]),
      SendParams([BaseMessage EXCEPT !.parts = JsString]),
      SendParams([BaseMessage EXCEPT !.parts = [kind |-> "array", items |-> <<>>]]),
      SendParams([kind |-> "object", parts |-> BaseMessage.parts, messageId |-> BaseMessage.messageId,
                  taskId |-> NoId, contextId |-> NoId]),
      SendParams([kind |-> "object", parts |-> BaseMessage.parts, role |-> BaseMessage.role,
                  taskId |-> NoId, contextId |-> NoId]),
      SendParams([BaseMessage EXCEPT !.parts = [kind |-> "array", items |-> <<>>], !.role = JsEmptyString]) }

\* A TaskStatus
Status(state, message, timestamp) == [state |-> state, message |-> message, timestamp |-> timestamp]

\* the statuses a callback hands to sendStatus (its own timestamp, if it gives
\* one, is overwritten at line 547)
CallbackStatuses ==
    { [state |-> s, message |-> NoMessage] : s \in {SUBMITTED, INPUT_REQUIRED, REJECTED} }
      \cup { [state |-> COMPLETED, message |-> ReplyMessage] }

Artifacts == {"artifact"}

\* ------------------------------------------------------------------------
\* The task store: a JavaScript Map, which keeps its keys in insertion order
\* ------------------------------------------------------------------------
\* A Map is a sequence of entries [key, val].
MapKeys(m) == { m[i].key : i \in 1..Len(m) }
MapHas(m, k) == \E i \in 1..Len(m) : m[i].key = k
MapIndex(m, k) == CHOOSE i \in 1..Len(m) : m[i].key = k
MapGet(m, k) == m[MapIndex(m, k)].val
\* m.set(k, v): replaces the value of a key the map has, in place, and
\* appends a new key
MapSet(m, k, v) ==
    IF MapHas(m, k)
    THEN [m EXCEPT ![MapIndex(m, k)] = [key |-> k, val |-> v]]
    ELSE Append(m, [key |-> k, val |-> v])

\* ------------------------------------------------------------------------
\* JSON-RPC responses
\* ------------------------------------------------------------------------
\* What a response carries as a task: a task object with its history and
\* artifacts fields present or deleted.
NoTask ==
    [id |-> NoId, contextId |-> NoId, status |-> Status("", NoMessage, 0),
     history |-> <<>>, artifacts |-> <<>>, hasHistory |-> FALSE, hasArtifacts |-> FALSE]

TaskView(task) ==
    [id |-> task.id, contextId |-> task.contextId, status |-> task.status,
     history |-> task.history, artifacts |-> task.artifacts,
     hasHistory |-> TRUE, hasArtifacts |-> TRUE]

\* The result of a response: a Task (tasks/get, tasks/cancel), a
\* SendMessageResponse {task} (message/send) or a ListTasksResponse
\* (tasks/list).
NoList == [tasks |-> <<>>, nextPageToken |-> <<>>, pageSize |-> 0, totalSize |-> 0]
NoResult == [shape |-> "none", task |-> NoTask, list |-> NoList]
TaskResult(view) == [shape |-> "task", task |-> view, list |-> NoList]
WrappedTask(view) == [shape |-> "wrapped", task |-> view, list |-> NoList]
ListResult(list) == [shape |-> "list", task |-> NoTask, list |-> list]

NoResponse == [kind |-> "none", id |-> 0, code |-> 0, message |-> "", result |-> NoResult]

\* lines 843-851, for the ids of validated requests, which are not null
jsonRpcSuccess(id, result) ==
    [kind |-> "result", id |-> id, code |-> 0, message |-> "", result |-> result]

jsonRpcError(id, code, message) ==
    [kind |-> "error", id |-> id, code |-> code, message |-> message, result |-> NoResult]

\* ------------------------------------------------------------------------
\* handleMessageSend, the synchronous part
\* ------------------------------------------------------------------------
\* The structural checks: the message of the first failing check, "" when all
\* pass.
ValidateSendParams_NoEmptyCheck(params) ==
    IF ~Truthy(params) \/ TypeOf(params) # "object" THEN "Invalid params"
    ELSE IF ~Truthy(Prop(params, "message")) THEN "Missing message"
    ELSE IF TypeOf(Prop(params, "message")) # "object" THEN "Invalid message structure"
    ELSE IF ~Truthy(Prop(params.message, "parts")) \/ ~IsArray(Prop(params.message, "parts"))
         THEN "Missing or invalid message.parts"
    ELSE IF ~Truthy(Prop(params.message, "role")) THEN "Missing message.role"
    ELSE IF ~Truthy(Prop(params.message, "messageId")) THEN "Missing message.messageId"
    ELSE ""

ValidateSendParams(params) ==
    IF ~Truthy(params) \/ TypeOf(params) # "object" THEN "Invalid params"
    ELSE IF ~Truthy(Prop(params, "message")) THEN "Missing message"
    ELSE IF TypeOf(Prop(params, "message")) # "object" THEN "Invalid message structure"
    ELSE IF ~Truthy(Prop(params.message, "parts")) \/ ~IsArray(Prop(params.message, "parts"))
         THEN "Missing or invalid message.parts"
    ELSE IF Len(params.message.parts.items) = 0 THEN "Message parts array must not be empty"
    ELSE IF ~Truthy(Prop(params.message, "role")) THEN "Missing message.role"
    ELSE IF ~Truthy(Prop(params.message, "messageId")) THEN "Missing message.messageId"
    ELSE ""

\* The checks of a message that names a task: the error response, or
\* NoResponse when the message is accepted.
CheckContinuation_NoExistsCheck(store, id, msg) ==
    IF msg.taskId = NoId \/ ~MapHas(store, msg.taskId) THEN NoResponse
    ELSE IF MapGet(store, msg.taskId).status.state \in TERMINAL_STATES
         THEN jsonRpcError(id, UNSUPPORTED_OPERATION, "Task is in terminal state")
    ELSE IF msg.contextId # NoId /\ MapGet(store, msg.taskId).contextId # msg.contextId
         THEN jsonRpcError(id, INVALID_PARAMS, "contextId does not match task")
    ELSE NoResponse

CheckContinuation_NoContextCheck(store, id, msg) ==
    IF msg.taskId = NoId THEN NoResponse
    ELSE IF ~MapHas(store, msg.taskId) THEN jsonRpcError(id, TASK_NOT_FOUND, "Task not found")
    ELSE IF MapGet(store, msg.taskId).status.state \in TERMINAL_STATES
         THEN jsonRpcError(id, UNSUPPORTED_OPERATION, "Task is in terminal state")
    ELSE NoResponse

CheckContinuation(store, id, msg) ==
    IF msg.taskId = NoId THEN NoResponse
    ELSE IF ~MapHas(store, msg.taskId) THEN jsonRpcError(id, TASK_NOT_FOUND, "Task not found")
    ELSE IF MapGet(store, msg.taskId).status.state \in TERMINAL_STATES
         THEN jsonRpcError(id, UNSUPPORTED_OPERATION, "Task is in terminal state")
    ELSE IF msg.contextId # NoId /\ MapGet(store, msg.taskId).contextId # msg.contextId
         THEN jsonRpcError(id, INVALID_PARAMS, "contextId does not match task")
    ELSE NoResponse

\* the object literal of lines 521-530
NewTask(taskId, contextId, time) ==
    [id |-> taskId, contextId |-> contextId, status |-> Status(WORKING, NoMessage, time),
     history |-> <<>>, artifacts |-> <<>>]

\* lines 533-538: the task is set to WORKING and the message is pushed
AcceptMessage_Prepend(task, msg, time) ==
    [task EXCEPT !.status = Status(WORKING, NoMessage, time), !.history = <<msg>> \o @]

AcceptMessage_Reset(task, msg, time) ==
    [task EXCEPT !.status = Status(WORKING, NoMessage, time), !.history = <<msg>>]

AcceptMessage(task, msg, time) ==
    [task EXCEPT !.status = Status(WORKING, NoMessage, time), !.history = Append(@, msg)]

\* ------------------------------------------------------------------------
\* handleMessageSend after the callback, and the MessageContext
\* ------------------------------------------------------------------------
\* lines 561-566
CompleteTask_NoPush(task, reply, time) ==
    [task EXCEPT !.status = Status(COMPLETED, reply, time)]

CompleteTask(task, reply, time) ==
    [task EXCEPT !.status = Status(COMPLETED, reply, time), !.history = Append(@, reply)]

\* lines 582-586
FailTask_Keep(task, err, time) == task

FailTask(task, err, time) ==
    [task EXCEPT !.status = Status(FAILED, Msg("agent", "", NoId, NoId, <<ErrorText(err)>>), time)]

\* sendStatus, line 547
ApplyStatus_Ignored(task, status, time) == task

ApplyStatus_OwnTimestamp(task, status, time) ==
    [task EXCEPT !.status = Status(status.state, status.message, 0)]

ApplyStatus(task, status, time) ==
    [task EXCEPT !.status = Status(status.state, status.message, time)]

\* sendArtifact, lines 550-551
PushArtifact(task, artifact) == [task EXCEPT !.artifacts = Append(@, artifact)]

\* ------------------------------------------------------------------------
\* handleTasksGet and handleTasksCancel
\* ------------------------------------------------------------------------
\* historyLength of a request that gives none
NoLength == -100

\* lines 609-617
LimitHistory_Head(task, historyLength) ==
    IF historyLength # NoLength /\ historyLength >= 0
    THEN IF historyLength = 0
         THEN [TaskView(task) EXCEPT !.hasHistory = FALSE, !.history = <<>>]
         ELSE [TaskView(task) EXCEPT !.history =
                  SubSeq(@, 1, IF Len(@) > historyLength THEN historyLength ELSE Len(@))]
    ELSE TaskView(task)

LimitHistory(task, historyLength) ==
    IF historyLength # NoLength /\ historyLength >= 0
    THEN IF historyLength = 0
         THEN [TaskView(task) EXCEPT !.hasHistory = FALSE, !.history = <<>>]
         ELSE [TaskView(task) EXCEPT !.history =
                  SubSeq(@, IF Len(@) > historyLength THEN Len(@) - historyLength + 1 ELSE 1, Len(@))]
    ELSE TaskView(task)

\* lines 637-640
CancelStatus_Keep(task, time) == task.status

CancelStatus(task, time) == Status(CANCELED, NoMessage, time)

\* ------------------------------------------------------------------------
\* handleTasksList
\* ------------------------------------------------------------------------
\* the states a status filter may name
VALID_TASK_STATES ==
    TASK_STATES \cup {"submitted", "working", "input-required", "completed", "failed", "canceled", "rejected"}

DefaultPageSize == 50
MinPageSize == 1
MaxPageSize_Wide == 2 * 100

MaxPageSize == 100

\* a number a request does not give, or gives as something that is no number
NoNumber == NoLength

\* A string is the sequence of its characters.
Digits == <<"0", "1", "2", "3", "4", "5", "6", "7", "8", "9">>
IsDigit(ch) == \E d \in 1..10 : Digits[d] = ch
DigitValue(ch) == (CHOOSE d \in 1..10 : Digits[d] = ch) - 1

\* String(n) of a number n >= 0
RECURSIVE StringOf(_)
StringOf(n) == IF n < 10 THEN <<Digits[n + 1]>> ELSE Append(StringOf(n \div 10), Digits[(n % 10) + 1])

\* the digits a string starts with
RECURSIVE LeadingDigits(_)
LeadingDigits(str) ==
    IF str # <<>> /\ IsDigit(Head(str)) THEN <<Head(str)>> \o LeadingDigits(Tail(str)) ELSE <<>>

RECURSIVE DigitsValue(_)
DigitsValue(ds) ==
    IF ds = <<>> THEN 0 ELSE 10 * DigitsValue(SubSeq(ds, 1, Len(ds) - 1)) + DigitValue(ds[Len(ds)])

\* parseInt(str, 10): the number of the leading digits, after a sign; NaN
\* when there is no digit
ParseInt(str) ==
    LET signed == str # <<>> /\ Head(str) \in {"-", "+"}
        ds == LeadingDigits(IF signed THEN Tail(str) ELSE str)
    IN  IF ds = <<>> THEN [nan |-> TRUE, value |-> 0]
        ELSE [nan |-> FALSE,
              value |-> IF signed /\ Head(str) = "-" THEN 0 - DigitsValue(ds) ELSE DigitsValue(ds)]

\* lines 690-709: the filters, in the order of the Map
Filter_KeepAll(entries, contextId, status, after) == [i \in 1..Len(entries) |-> entries[i].val]

RECURSIVE Filter(_, _, _, _)
Filter(entries, contextId, status, after) ==
    IF entries = <<>> THEN <<>>
    ELSE LET t == Head(entries).val
             keep == /\ contextId = NoId \/ t.contextId = contextId
                     /\ status = "" \/ t.status.state = status
                     /\ after = NoNumber \/ t.status.timestamp >= after
         IN  (IF keep THEN <<t>> ELSE <<>>) \o Filter(Tail(entries), contextId, status, after)

\* lines 712-716: Array.prototype.sort with the comparator bTime - aTime; the
\* sort is stable
InsertByTime_BeforeEqual(sorted, t) ==
    LET before == { i \in 1..Len(sorted) : sorted[i].status.timestamp > t.status.timestamp }
        k == Cardinality(before)
    IN  SubSeq(sorted, 1, k) \o <<t>> \o SubSeq(sorted, k + 1, Len(sorted))

InsertByTime(sorted, t) ==
    LET before == { i \in 1..Len(sorted) : sorted[i].status.timestamp >= t.status.timestamp }
        k == Cardinality(before)
    IN  SubSeq(sorted, 1, k) \o <<t>> \o SubSeq(sorted, k + 1, Len(sorted))

RECURSIVE SortByTime(_)
SortByTime(ts) ==
    IF ts = <<>> THEN <<>> ELSE InsertByTime(SortByTime(SubSeq(ts, 1, Len(ts) - 1)), ts[Len(ts)])

\* ts.slice(from, to), with indices that count from 0
Slice_Inclusive(ts, from, to) ==
    SubSeq(ts, from + 1, IF to + 1 < Len(ts) THEN to + 1 ELSE Len(ts))

Slice(ts, from, to) ==
    SubSeq(ts, from + 1, IF to < Len(ts) THEN to ELSE Len(ts))

\* lines 734-759: what a list result shows of a task
ListView_Full(t, historyLength, includeArtifacts) ==
    [id |-> t.id, contextId |-> t.contextId, status |-> t.status,
     hasHistory |-> TRUE, history |-> t.history,
     hasArtifacts |-> TRUE, artifacts |-> t.artifacts]

ListView(t, historyLength, includeArtifacts) ==
    [id |-> t.id, contextId |-> t.contextId, status |-> t.status,
     hasHistory |-> historyLength # 0,
     history |-> IF historyLength = 0 THEN <<>>
                 ELSE IF historyLength # NoNumber
                      THEN SubSeq(t.history,
                                  IF Len(t.history) > historyLength THEN Len(t.history) - historyLength + 1 ELSE 1,
                                  Len(t.history))
                      ELSE t.history,
     hasArtifacts |-> includeArtifacts,
     artifacts |-> IF includeArtifacts THEN t.artifacts ELSE <<>>]

\* lines 646-774.  params.statusTimestampAfter is a record: given tells that
\* it is a string, looksLikeDate that it starts like a date, time is the time
\* new Date() reads from it, NoNumber when that is NaN.
HandleTasksList(store, id, params) ==
    LET pageSize == IF params.pageSize # NoNumber THEN params.pageSize ELSE DefaultPageSize
        after == params.statusTimestampAfter
    IN  IF pageSize < MinPageSize \/ pageSize > MaxPageSize
        THEN jsonRpcError(id, INVALID_PARAMS, "pageSize must be between 1 and 100")
        ELSE IF params.historyLength # NoNumber /\ params.historyLength < 0
        THEN jsonRpcError(id, INVALID_PARAMS, "historyLength must be non-negative")
        ELSE IF params.status # "" /\ params.status \notin VALID_TASK_STATES
        THEN jsonRpcError(id, INVALID_PARAMS, "Invalid status")
        ELSE IF after.given /\ ~after.looksLikeDate
        THEN jsonRpcError(id, INVALID_PARAMS, "Invalid statusTimestampAfter: must be ISO 8601 format")
        ELSE IF after.given /\ after.time = NoNumber
        THEN jsonRpcError(id, INVALID_PARAMS, "Invalid statusTimestampAfter timestamp")
        ELSE
        LET sorted == SortByTime(Filter(store, params.contextId, params.status,
                                        IF after.given THEN after.time ELSE NoNumber))
            totalSize == Len(sorted)
            decoded == ParseInt(params.pageToken)
        IN  IF params.pageToken # <<>> /\ (decoded.nan \/ decoded.value < 0)
            THEN jsonRpcError(id, INVALID_PARAMS, "Invalid pageToken")
            ELSE
            LET startIndex == IF params.pageToken # <<>> THEN decoded.value ELSE 0
                pageTasks == Slice(sorted, startIndex, startIndex + pageSize)
                nextStartIndex == startIndex + pageSize
            IN  jsonRpcSuccess(id, ListResult(
                    [tasks |-> [i \in 1..Len(pageTasks) |->
                                   ListView(pageTasks[i], params.historyLength, params.includeArtifacts)],
                     nextPageToken |-> IF nextStartIndex < totalSize THEN StringOf(nextStartIndex) ELSE <<>>,
                     pageSize |-> Len(pageTasks),
                     totalSize |-> totalSize]))

\* ------------------------------------------------------------------------
\* State
\* ------------------------------------------------------------------------
VARIABLES
    tasks,   \* A2AServer.tasks: the Map from task id to Task
    calls,   \* the invocations of config.onMessage made so far, each with the
             \* MessageContext it was given and the request it belongs to
    uuid,    \* the number of identifiers randomUUID() has returned
    now,     \* the clock new Date() reads
    op,      \* the operation of the last step and its input
    resp,    \* the JSON-RPC response the last step produced, if it produced one
    prev,    \* tasks, calls and uuid as they were before the last step
    http     \* the HTTP status the response of the last step was written with

\* the relay client is an object of its own
VARIABLES
    client,  \* the RelayClient: its fields, the sockets it opened and the
             \* promises of its doConnect calls
    rop,     \* the last step of the relay client, of its sockets or of the relay
    before   \* client as it was before that step

vars == <<tasks, calls, uuid, now, op, resp, prev, http, client, rop, before>>

\* the ids of JSON-RPC requests: the n-th message/send has id n, the other
\* requests have the id QueryId
QueryId == 9

\* One invocation of the callback.  taskId and contextId are the fields of its
\* MessageContext, id the id of the request that waits for it, msg the message
\* it was invoked with.  pc is "running" until the await of line 557 is over,
\* then "working" when the callback answered {type: 'working'} and "done"
\* when it ended in another way.
\* untouched records that the task was not written since the invocation.
Call(taskId, contextId, id, msg) ==
    [taskId |-> taskId, contextId |-> contextId, id |-> id, msg |-> msg,
     pc |-> "running", untouched |-> TRUE]

\* a write to task t ends the untouched period of the invocations suspended on it
Touch(cs, t) ==
    [i \in 1..Len(cs) |->
        IF cs[i].taskId = t /\ cs[i].pc = "running" THEN [cs[i] EXCEPT !.untouched = FALSE] ELSE cs[i]]

Running(c) == c \in 1..Len(calls) /\ calls[c].pc = "running"

Before == [tasks |-> tasks, calls |-> calls, uuid |-> uuid]

\* no HTTP response
NoStatus == 0

\* res.writeHead(status) of handleJsonRpc, by the place that writes the
\* response: the authorization check (line 401), the parse of the body (line
\* 414), the validation of the envelope (line 422) and the method handler
\* (line 435)
HttpStatus_ParseIs400(stage) ==
    IF stage = "unauthorized" THEN 401 ELSE IF stage = "parse" THEN 400 ELSE 200

HttpStatus(stage) == IF stage = "unauthorized" THEN 401 ELSE 200

\* ------------------------------------------------------------------------
\* JSON.stringify and JSON.parse for the values of a relay frame.  A string
\* is a sequence of characters, a JSON text is a sequence of characters.
\* ------------------------------------------------------------------------
Undefined == [t |-> "undefined"]
Null == [t |-> "null"]
Str(chars) == [t |-> "string", v |-> chars]
Bool(b) == [t |-> "boolean", v |-> b]
\* an array with its elements, an object with its own properties <<key,
\* value>> in the order of their creation
Arr(elements) == [t |-> "array", v |-> elements]
Obj(members) == [t |-> "object", v |-> members]

\* JSON.stringify of a string: QuoteJSONString escapes the quotation mark,
\* the backslash and the control characters
EscapeChar(ch) ==
    IF ch = "\"" THEN <<"\\", "\"">>
    ELSE IF ch = "\\" THEN <<"\\", "\\">>
    ELSE IF ch = "\n" THEN <<"\\", "n">>
    ELSE <<ch>>

RECURSIVE Escape(_)
Escape(chars) == IF chars = <<>> THEN <<>> ELSE EscapeChar(Head(chars)) \o Escape(Tail(chars))

Quote_NoEscape(chars) == <<"\"">> \o chars \o <<"\"">>

Quote(chars) == <<"\"">> \o Escape(chars) \o <<"\"">>

\* the properties JSON.stringify serializes: those whose value is not
\* undefined
Defined(members) == SelectSeq(members, LAMBDA m : m[2].t # "undefined")

RECURSIVE JSONstringify(_)
JSONstringify(value) ==
    LET RECURSIVE elements(_)
        elements(es) ==
            IF es = <<>> THEN <<>>
            ELSE (IF Head(es).t = "undefined" THEN <<"n", "u", "l", "l">> ELSE JSONstringify(Head(es)))
                 \o (IF Len(es) > 1 THEN <<",">> ELSE <<>>) \o elements(Tail(es))
        RECURSIVE members(_)
        members(ms) ==
            IF ms = <<>> THEN <<>>
            ELSE Quote(Head(ms)[1]) \o <<":">> \o JSONstringify(Head(ms)[2])
                 \o (IF Len(ms) > 1 THEN <<",">> ELSE <<>>) \o members(Tail(ms))
    IN  CASE value.t = "string" -> Quote(value.v)
          [] value.t = "boolean" -> IF value.v THEN <<"t", "r", "u", "e">> ELSE <<"f", "a", "l", "s", "e">>
          [] value.t = "null" -> <<"n", "u", "l", "l">>
          [] value.t = "array" -> <<"[">> \o elements(value.v) \o <<"]">>
          [] value.t = "object" -> <<"{">> \o members(Defined(value.v)) \o <<"}">>

\* JSON.parse: the value of a text, or a SyntaxError
SyntaxError == [t |-> "SyntaxError"]
Parsed(value, rest) == [ok |-> TRUE, value |-> value, rest |-> rest]
NotParsed == [ok |-> FALSE, value |-> SyntaxError, rest |-> <<>>]

IsPrefixOf(word, text) == Len(text) >= Len(word) /\ SubSeq(text, 1, Len(word)) = word
After(word, text) == SubSeq(text, Len(word) + 1, Len(text))

\* the characters of a string literal after its opening quotation mark
RECURSIVE ParseString(_, _)
ParseString(text, chars) ==
    IF text = <<>> \/ Head(text) = "\n" THEN NotParsed
    ELSE IF Head(text) = "\"" THEN Parsed(Str(chars), Tail(text))
    ELSE IF Head(text) = "\\"
         THEN IF Len(text) < 2 THEN NotParsed
              ELSE IF text[2] \in {"\"", "\\"} THEN ParseString(Tail(Tail(text)), Append(chars, text[2]))
              ELSE IF text[2] = "n" THEN ParseString(Tail(Tail(text)), Append(chars, "\n"))
              ELSE NotParsed
    ELSE ParseString(Tail(text), Append(chars, Head(text)))

\* set the property key of an object under construction: a key that is
\* there already keeps its place and gets the new value
SetMember(members, key, value) ==
    IF \E i \in 1..Len(members) : members[i][1] = key
    THEN [i \in 1..Len(members) |-> IF members[i][1] = key THEN <<key, value>> ELSE members[i]]
    ELSE Append(members, <<key, value>>)

RECURSIVE ParseValue(_), ParseElements(_, _), ParseMembers(_, _)
ParseValue(text) ==
    IF text = <<>> THEN NotParsed
    ELSE CASE Head(text) = "\"" -> ParseString(Tail(text), <<>>)
           [] IsPrefixOf(<<"t", "r", "u", "e">>, text) -> Parsed(Bool(TRUE), After(<<"t", "r", "u", "e">>, text))
           [] IsPrefixOf(<<"f", "a", "l", "s", "e">>, text) -> Parsed(Bool(FALSE), After(<<"f", "a", "l", "s", "e">>, text))
           [] IsPrefixOf(<<"n", "u", "l", "l">>, text) -> Parsed(Null, After(<<"n", "u", "l", "l">>, text))
           [] IsPrefixOf(<<"[", "]">>, text) -> Parsed(Arr(<<>>), After(<<"[", "]">>, text))
           [] IsPrefixOf(<<"{", "}">>, text) -> Parsed(Obj(<<>>), After(<<"{", "}">>, text))
           [] Head(text) = "[" /\ ~IsPrefixOf(<<"[", "]">>, text) -> ParseElements(Tail(text), <<>>)
           [] Head(text) = "{" /\ ~IsPrefixOf(<<"{", "}">>, text) -> ParseMembers(Tail(text), <<>>)
           [] OTHER -> NotParsed

ParseElements(text, elements) ==
    \* text starts with an element; elements are those before it
    LET NextElement(e) ==
            IF ~e.ok \/ e.rest = <<>> THEN NotParsed
            ELSE IF Head(e.rest) = "," THEN ParseElements(Tail(e.rest), Append(elements, e.value))
            ELSE IF Head(e.rest) = "]" THEN Parsed(Arr(Append(elements, e.value)), Tail(e.rest))
            ELSE NotParsed
    IN  NextElement(ParseValue(text))

ParseMembers(text, members) ==
    \* text starts with the key of a member; members are those before it
    LET NextMember(k, m) ==
            IF ~m.ok \/ m.rest = <<>> THEN NotParsed
            ELSE IF Head(m.rest) = ","
                 THEN ParseMembers(Tail(m.rest), SetMember(members, k.value.v, m.value))
            ELSE IF Head(m.rest) = "}"
                 THEN Parsed(Obj(SetMember(members, k.value.v, m.value)), Tail(m.rest))
            ELSE NotParsed
        Member(k) ==
            IF ~k.ok \/ k.rest = <<>> \/ Head(k.rest) # ":" THEN NotParsed
            ELSE NextMember(k, ParseValue(Tail(k.rest)))
    IN  IF text = <<>> \/ Head(text) # "\"" THEN NotParsed
        ELSE Member(ParseString(Tail(text), <<>>))

JSONparse(text) ==
    LET Whole(r) == IF r.ok /\ r.rest = <<>> THEN r.value ELSE SyntaxError
    IN  Whole(ParseValue(text))

\* object.key: the value of the property, undefined if there is none
Read(object, key) ==
    IF object.t = "object" /\ \E i \in 1..Len(object.v) : object.v[i][1] = key
    THEN object.v[CHOOSE i \in 1..Len(object.v) : object.v[i][1] = key][2]
    ELSE Undefined

\* ------------------------------------------------------------------------
\* RelayClient, lines 29-204
\* ------------------------------------------------------------------------
MaxSockets == 2

\* no socket: this.ws = null
NoSocket == 0

\* A WebSocket the client created, with the promise of the doConnect call
\* that created it.  readyState is that of the ws library; a slot whose
\* socket is CLOSED and has emitted 'close' is free for the next socket.
\* aborted: close() was called while CONNECTING, so the socket will emit
\* 'error' and 'close'.  inbox holds the frames of the relay that have not
\* been emitted as 'message' yet, outbox the frames sent on the socket.
\* handled is the set of frame types handleMessage was given.
UnusedSocket ==
    [readyState |-> "CLOSED", aborted |-> FALSE, promise |-> "none", caller |-> "none",
     inbox |-> <<>>, outbox |-> <<>>, handled |-> {}]

FreshSocket(caller) ==
    [readyState |-> "CONNECTING", aborted |-> FALSE, promise |-> "pending", caller |-> caller,
     inbox |-> <<>>, outbox |-> <<>>, handled |-> {}]

\* the names of the properties of the auth frame and of an agent card
TypeKey == <<"t", "y", "p", "e">>
TokenKey == <<"t", "o", "k", "e", "n">>
TenantKey == <<"t", "e", "n", "a", "n", "t">>
AgentIdKey == <<"a", "g", "e", "n", "t", "_", "i", "d">>
AgentCardKey == <<"a", "g", "e", "n", "t", "_", "c", "a", "r", "d">>
NameKey == <<"n", "a", "m", "e">>
DescriptionKey == <<"d", "e", "s", "c", "r", "i", "p", "t", "i", "o", "n">>
UrlKey == <<"u", "r", "l">>
CapabilitiesKey == <<"c", "a", "p", "a", "b", "i", "l", "i", "t", "i", "e", "s">>
StreamingKey == <<"s", "t", "r", "e", "a", "m", "i", "n", "g">>
DefaultInputModesKey == <<"d", "e", "f", "a", "u", "l", "t", "I", "n", "p", "u", "t", "M", "o", "d", "e", "s">>
SecuritySchemesKey == <<"s", "e", "c", "u", "r", "i", "t", "y", "S", "c", "h", "e", "m", "e", "s">>
SchemeKey == <<"s", "c", "h", "e", "m", "e">>

\* An AgentCard object (a2a-types.ts 152-167) with the members name, url,
\* capabilities and the optional members given; an optional member that is
\* Absent is no property of the object, one that is Undefined is a property
\* with the value undefined.
Absent == [t |-> "absent"]
Present(members) == SelectSeq(members, LAMBDA m : m[2].t # "absent")

AgentCard(name, description, streaming, defaultInputModes, securitySchemes) ==
    Obj(Present(<< <<NameKey, Str(name)>>,
                   <<DescriptionKey, description>>,
                   <<UrlKey, Str(<<"u">>)>>,
                   <<CapabilitiesKey, Obj(Present(<< <<StreamingKey, streaming>> >>))>>,
                   <<DefaultInputModesKey, defaultInputModes>>,
                   <<SecuritySchemesKey, securitySchemes>> >>))

\* the configuration of the client of the connection scenarios
TestConfig ==
    [autoReconnect |-> TRUE, token |-> <<"a">>, tenant |-> <<"t">>, agentId |-> <<"a">>,
     agentCard |-> AgentCard(<<"a">>, Absent, Absent, Absent, Absent)]

\* lines 30-42: the fields after construction; timers is the number of
\* timeouts set by setTimeout that were neither fired nor cleared, handlers
\* the invocations of config.onRequest that have not completed, requests the
\* number of a2a.request frames received, answered the numbers of the
\* frames for whose invocation an a2a.response was sent
Constructed(autoReconnect) ==
    [config |-> [TestConfig EXCEPT !.autoReconnect = autoReconnect],
     ws |-> NoSocket,
     reconnectTimer |-> FALSE,
     isConnected |-> FALSE,
     isStopping |-> FALSE,
     timers |-> 0,
     sockets |-> [s \in 1..MaxSockets |-> UnusedSocket],
     handlers |-> <<>>,
     requests |-> 0,
     answered |-> <<>>]

\* a socket that emitted 'close': the promise of its doConnect remains
Closed(socket) == [UnusedSocket EXCEPT !.promise = socket.promise, !.caller = socket.caller]

FreeSockets(c) == { s \in 1..MaxSockets : c.sockets[s].readyState = "CLOSED" }

\* lines 49-86, the synchronous part: new WebSocket(url) and this.ws = it
doConnect(c, caller) ==
    LET s == CHOOSE f \in FreeSockets(c) : \A g \in FreeSockets(c) : f <= g
    IN  [c EXCEPT !.sockets[s] = FreshSocket(caller), !.ws = s]

\* lines 44-47
connect(c) == doConnect([c EXCEPT !.isStopping = FALSE], "connect")

\* ws.send(frame) on this.ws, lines 99, 142 and 165; a socket that is not
\* OPEN sends nothing (on a CONNECTING socket send() throws, on a CLOSING or
\* CLOSED one the frame is discarded)
Send(c, frame) ==
    IF c.ws # NoSocket /\ c.sockets[c.ws].readyState = "OPEN"
    THEN [c EXCEPT !.sockets[c.ws].outbox = Append(@, frame)]
    ELSE c

\* the object of lines 91-97
authMsg(c) ==
    Obj(<< <<TypeKey, Str(<<"a", "u", "t", "h">>)>>,
           <<TokenKey, Str(c.config.token)>>,
           <<TenantKey, Str(c.config.tenant)>>,
           <<AgentIdKey, Str(c.config.agentId)>>,
           <<AgentCardKey, c.config.agentCard>> >>)

\* the frame of line 99: the text JSON.stringify(authMsg)
AuthFrame(c) == [type |-> "auth", text |-> JSONstringify(authMsg(c))]

\* lines 88-100
sendAuth(c) == IF c.ws = NoSocket THEN c ELSE Send(c, AuthFrame(c))

\* ws.close() of a socket: an OPEN socket starts the closing handshake, a
\* CONNECTING one aborts its handshake, which emits 'error' and 'close'
WsClose(c, s) ==
    IF c.sockets[s].readyState = "OPEN"
    THEN [c EXCEPT !.sockets[s].readyState = "CLOSING"]
    ELSE IF c.sockets[s].readyState = "CONNECTING"
    THEN [c EXCEPT !.sockets[s].readyState = "CLOSING", !.sockets[s].aborted = TRUE]
    ELSE c

\* lines 169-182, without the callback of the timer
scheduleReconnect(c) ==
    IF c.reconnectTimer THEN c
    ELSE [c EXCEPT !.reconnectTimer = TRUE, !.timers = @ + 1]

\* lines 173-175: the callback of the timer
timerCallback(c) == doConnect([c EXCEPT !.reconnectTimer = FALSE, !.timers = @ - 1], "timer")

\* reject(err) for the promise of socket s, and for a doConnect of the
\* timer the catch of lines 175-180
Reject(c, s) ==
    IF c.sockets[s].promise # "pending" THEN c
    ELSE LET r == [c EXCEPT !.sockets[s].promise = "rejected"]
         IN  IF c.sockets[s].caller = "timer" /\ c.config.autoReconnect /\ ~c.isStopping
             THEN scheduleReconnect(r)
             ELSE r

\* lines 79-84
onError(c, s) == IF ~c.isConnected THEN Reject(c, s) ELSE c

\* lines 69-77
onClose_NoReconnect(c, s) ==
    [c EXCEPT !.isConnected = FALSE, !.ws = NoSocket, !.sockets[s] = Closed(c.sockets[s])]

onClose(c, s) ==
    LET d == [c EXCEPT !.isConnected = FALSE, !.ws = NoSocket,
                       !.sockets[s] = Closed(c.sockets[s])]
    IN  IF ~c.isStopping /\ c.config.autoReconnect THEN scheduleReconnect(d) ELSE d

\* resolve() for the promise of socket s
Resolve(c, s) ==
    IF c.sockets[s].promise = "pending" THEN [c EXCEPT !.sockets[s].promise = "resolved"] ELSE c

\* lines 104-109
onAuthOk_NotConnected(c, s) == Resolve(c, s)

onAuthOk(c, s) == Resolve([c EXCEPT !.isConnected = TRUE], s)

\* lines 111-115: this.ws?.close()
onAuthError(c) == IF c.ws = NoSocket THEN c ELSE WsClose(c, c.ws)

\* lines 149-167
sendResponse_JsonRpcId(c, relayRequestId, response) ==
    Send(c, [type |-> "a2a.response",
             payload |-> [id |-> response.id, result |-> response.result, error |-> response.error]])

sendResponse(c, relayRequestId, response) ==
    Send(c, [type |-> "a2a.response",
             payload |-> [id |-> relayRequestId, result |-> response.result, error |-> response.error]])

\* response.result and response.error of a response without that member
NoRpcResult == "undefined"
NoRpcError == [code |-> 0, message |-> "undefined"]

\* the response of lines 131-135 for a handler that threw err
ThrownResponse(request, text) ==
    [id |-> request.id, result |-> NoRpcResult, error |-> [code |-> -32603, message |-> text]]

\* lines 102-147 up to the await of line 127: an a2a.request starts an
\* invocation of config.onRequest, which keeps the relay id of its frame
handleMessage(c, s, msg) ==
    CASE msg.type = "auth_ok" -> onAuthOk(c, s)
      [] msg.type = "auth_error" -> onAuthError(c)
      [] msg.type = "a2a.request" ->
           [c EXCEPT !.requests = @ + 1,
                     !.handlers = Append(@, [requestId |-> msg.payload.id,
                                             jsonRpcRequest |-> msg.payload.params,
                                             frame |-> c.requests + 1])]
      [] msg.type = "ping" -> Send(c, [type |-> "pong"])
      [] OTHER -> c

\* What config.onRequest can do with a request: return a response with a
\* result or with an error, throw an error, or throw a value that String()
\* cannot convert.
Outcomes == {"result", "error", "throw", "throw unprintable"}

ReturnedResponse(request, outcome) ==
    IF outcome = "result"
    THEN [id |-> request.id, result |-> request.method, error |-> NoRpcError]
    ELSE [id |-> request.id, result |-> NoRpcResult,
          error |-> [code |-> -32601, message |-> "Method not found"]]

\* lines 126-136, after the await of line 127, for the i-th invocation in
\* progress: the response the handler returned is sent with the relay id
\* of the invocation; if it threw, the response of the catch is sent; if
\* String(err) throws in the catch, the catch of line 64 logs and nothing
\* is sent
Without(seq, i) == [k \in 1..(Len(seq) - 1) |-> IF k < i THEN seq[k] ELSE seq[k + 1]]

completeRequest(c, i, outcome) ==
    LET h == c.handlers[i]
        d == [c EXCEPT !.handlers = Without(@, i)]
    IN  CASE outcome \in {"result", "error"} ->
               sendResponse(d, h.requestId, ReturnedResponse(h.jsonRpcRequest, outcome))
          [] outcome = "throw" ->
               sendResponse(d, h.requestId, ThrownResponse(h.jsonRpcRequest, "Error: handler failed"))
          [] OTHER -> d

\* lines 184-199
disconnect(c) ==
    LET stopped == [c EXCEPT !.isStopping = TRUE,
                             !.timers = IF c.reconnectTimer THEN @ - 1 ELSE @,
                             !.reconnectTimer = FALSE]
        closed == IF c.ws = NoSocket THEN stopped ELSE [WsClose(stopped, c.ws) EXCEPT !.ws = NoSocket]
    IN  [closed EXCEPT !.isConnected = FALSE]

\* lines 201-203
connected(c) == c.isConnected

Init ==
    /\ client = Constructed(TRUE)
    /\ rop = [name |-> "constructed"]
    /\ before = Constructed(TRUE)
    /\ tasks = <<>>
    /\ calls = <<>>
    /\ uuid = 0
    /\ now = 0
    /\ op = [name |-> "init"]
    /\ resp = NoResponse
    /\ prev = [tasks |-> <<>>, calls |-> <<>>, uuid |-> 0]
    /\ http = NoStatus

\* what a step leaves in op, resp, prev and http
ObservedWith(o, r, status) ==
    /\ op' = o /\ resp' = r /\ prev' = Before /\ http' = status
    /\ UNCHANGED <<client, rop, before>>

\* The response of a method handler is written with the status of line 435;
\* a step without a response writes nothing.
Observed(o, r) == ObservedWith(o, r, IF r.kind = "none" THEN NoStatus ELSE HttpStatus("routed"))

\* A request that changes nothing (a refused request, a tasks/get, a
\* tasks/list) leaves only its response behind, and the response it gets does
\* not depend on the responses before it.  The model takes such a request
\* after a step that changed something and not after another such request: a
\* run of several of them shows nothing that each of them does not show at
\* the head of the run.
AfterChange == resp.kind # "error" /\ op.name \notin {"tasks/get", "tasks/list"}

\* lines 471-557, up to the invocation of the callback: the response of a
\* rejected request, or the store and the invocation of an accepted one
HandleMessageSend(store, cs, drawn, id, params, time) ==
    LET err == ValidateSendParams(params)
        rejected(r) == [resp |-> r, tasks |-> store, calls |-> cs, uuid |-> drawn]
    IN  IF err # "" THEN rejected(jsonRpcError(id, INVALID_PARAMS, err))
        ELSE
        LET msg == MessageOf(params.message)
            check == CheckContinuation(store, id, msg)
        IN  IF check.kind # "none" THEN rejected(check)
            ELSE
            LET existing == msg.taskId # NoId /\ MapHas(store, msg.taskId)
                taskId == IF msg.taskId # NoId THEN msg.taskId ELSE RandomUUID(drawn)
                drawn1 == IF msg.taskId # NoId THEN drawn ELSE drawn + 1
                inherit == existing /\ MapGet(store, msg.taskId).contextId # NoId
                contextId == IF msg.contextId # NoId THEN msg.contextId
                             ELSE IF inherit THEN MapGet(store, msg.taskId).contextId
                             ELSE RandomUUID(drawn1)
                drawn2 == IF msg.contextId # NoId \/ inherit THEN drawn1 ELSE drawn1 + 1
                task == IF existing THEN MapGet(store, taskId) ELSE NewTask(taskId, contextId, time)
            IN  [resp |-> NoResponse,
                 tasks |-> MapSet(store, taskId, AcceptMessage(task, msg, time)),
                 calls |-> Append(Touch(cs, taskId), Call(taskId, contextId, id, msg)),
                 uuid |-> drawn2]

\* what a client may put into message.taskId and message.contextId
TaskIdInputs == {NoId, UnknownTaskId} \cup MapKeys(tasks)
ContextIdInputs == {NoId} \cup ClientContextIds

SendInputs ==
    InvalidSendParams \cup
    { SendParams(MessageValue(MessageId(Len(calls) + 1), t, c)) : t \in TaskIdInputs, c \in ContextIdInputs }

\* a message/send request, as long as the store and the invocations stay
\* within the bounds
SendWithin(maxTasks, maxCalls) ==
    \E id \in {Len(calls) + 1}, params \in SendInputs :
        LET out == HandleMessageSend(tasks, calls, uuid, id, params, now)
        IN  /\ Len(out.calls) <= maxCalls
            /\ Len(out.tasks) <= maxTasks
            /\ out.resp.kind = "error" => AfterChange
            /\ tasks' = out.tasks
            /\ calls' = out.calls
            /\ uuid' = out.uuid
            /\ Observed([name |-> "message/send", id |-> id, params |-> params,
                         call |-> IF Len(out.calls) > Len(calls) THEN Len(out.calls) ELSE 0],
                        out.resp)
            /\ UNCHANGED now

MessageSend == SendWithin(MaxTasks, MaxCalls)

\* the task a callback that answers {type: 'task'} builds
CallbackTasks(c) ==
    { [id |-> calls[c].taskId, contextId |-> calls[c].contextId,
       status |-> Status(s, NoMessage, now), history |-> <<>>, artifacts |-> <<>>] :
         s \in {COMPLETED, INPUT_REQUIRED} }

Finish(cs, c, how) == [cs EXCEPT ![c].pc = how, ![c].untouched = FALSE]

\* lines 559-570: the callback answered {type: 'message'}
ReturnMessage ==
    \E c \in 1..Len(calls), reply \in {ReplyMessage} :
        /\ Running(c)
        /\ LET task == CompleteTask(MapGet(tasks, calls[c].taskId), reply, now)
           IN  /\ tasks' = MapSet(tasks, calls[c].taskId, task)
               /\ Observed([name |-> "return", call |-> c, type |-> "message", message |-> reply],
                           jsonRpcSuccess(calls[c].id, WrappedTask(TaskView(task))))
        /\ calls' = Finish(Touch(calls, calls[c].taskId), c, "done")
        /\ UNCHANGED <<uuid, now>>

\* lines 571-575: the callback answered {type: 'working'}
ReturnWorking ==
    \E c \in 1..Len(calls) :
        /\ Running(c)
        /\ calls' = Finish(calls, c, "working")
        /\ Observed([name |-> "return", call |-> c, type |-> "working"],
                    jsonRpcSuccess(calls[c].id, WrappedTask(TaskView(MapGet(tasks, calls[c].taskId)))))
        /\ UNCHANGED <<tasks, uuid, now>>

\* lines 576-580: the callback answered {type: 'task'}
ReturnTask ==
    \E c \in 1..Len(calls) : \E task \in CallbackTasks(c) :
        /\ Running(c)
        /\ calls' = Finish(calls, c, "done")
        /\ Observed([name |-> "return", call |-> c, type |-> "task", task |-> task],
                    jsonRpcSuccess(calls[c].id, WrappedTask(TaskView(task))))
        /\ UNCHANGED <<tasks, uuid, now>>

\* lines 581-590: the callback threw, or its promise was rejected
HandlerThrow ==
    \E c \in 1..Len(calls), err \in Errors :
        /\ Running(c)
        /\ LET task == FailTask(MapGet(tasks, calls[c].taskId), err, now)
           IN  /\ tasks' = MapSet(tasks, calls[c].taskId, task)
               /\ Observed([name |-> "throw", call |-> c, err |-> err],
                           jsonRpcSuccess(calls[c].id, WrappedTask(TaskView(task))))
        /\ calls' = Finish(Touch(calls, calls[c].taskId), c, "done")
        /\ UNCHANGED <<uuid, now>>

\* context.sendStatus(status), lines 546-548; the callback may call it while
\* it runs and, from a timer, after it returned
SendStatus ==
    \E c \in 1..Len(calls), status \in CallbackStatuses :
        /\ tasks' = MapSet(tasks, calls[c].taskId, ApplyStatus(MapGet(tasks, calls[c].taskId), status, now))
        /\ calls' = Touch(calls, calls[c].taskId)
        /\ Observed([name |-> "sendStatus", call |-> c, status |-> status], NoResponse)
        /\ UNCHANGED <<uuid, now>>

\* context.sendArtifact(artifact), lines 549-552
SendArtifact ==
    \E c \in 1..Len(calls), artifact \in Artifacts :
        /\ Len(MapGet(tasks, calls[c].taskId).artifacts) < MaxArtifacts
        /\ tasks' = MapSet(tasks, calls[c].taskId, PushArtifact(MapGet(tasks, calls[c].taskId), artifact))
        /\ Observed([name |-> "sendArtifact", call |-> c, artifact |-> artifact], NoResponse)
        /\ UNCHANGED <<calls, uuid, now>>

\* lines 593-621
HandleTasksGet(store, id, params) ==
    IF params.id = NoId THEN jsonRpcError(id, INVALID_PARAMS, "Missing task id")
    ELSE IF params.historyLength # NoLength /\ params.historyLength < 0
         THEN jsonRpcError(id, INVALID_PARAMS, "historyLength must be non-negative")
    ELSE IF ~MapHas(store, params.id) THEN jsonRpcError(id, TASK_NOT_FOUND, "Task not found")
    ELSE jsonRpcSuccess(id, TaskResult(LimitHistory(MapGet(store, params.id), params.historyLength)))

HistoryLengthInputs == {NoLength, -1, 0, 1}

TasksGet ==
    \E id \in {QueryId}, t \in TaskIdInputs, h \in HistoryLengthInputs :
        /\ AfterChange
        /\ Observed([name |-> "tasks/get", id |-> id, params |-> [id |-> t, historyLength |-> h]],
                    HandleTasksGet(tasks, id, [id |-> t, historyLength |-> h]))
        /\ UNCHANGED <<tasks, calls, uuid, now>>

\* lines 623-644: the response and the store
HandleTasksCancel(store, id, params, time) ==
    IF params.id = NoId
    THEN [resp |-> jsonRpcError(id, INVALID_PARAMS, "Missing task id"), tasks |-> store]
    ELSE IF ~MapHas(store, params.id)
    THEN [resp |-> jsonRpcError(id, TASK_NOT_FOUND, "Task not found"), tasks |-> store]
    ELSE IF MapGet(store, params.id).status.state \in TERMINAL_STATES
    THEN [resp |-> jsonRpcError(id, TASK_NOT_CANCELABLE, "Task already in terminal state"), tasks |-> store]
    ELSE LET task == [MapGet(store, params.id) EXCEPT !.status = CancelStatus(MapGet(store, params.id), time)]
         IN  [resp |-> jsonRpcSuccess(id, TaskResult(TaskView(task))), tasks |-> MapSet(store, params.id, task)]

TasksCancel ==
    \E id \in {QueryId}, t \in TaskIdInputs :
        LET out == HandleTasksCancel(tasks, id, [id |-> t], now)
        IN  /\ out.resp.kind = "error" => AfterChange
            /\ tasks' = out.tasks
            /\ calls' = IF out.resp.kind = "result" THEN Touch(calls, t) ELSE calls
            /\ Observed([name |-> "tasks/cancel", id |-> id, params |-> [id |-> t]], out.resp)
            /\ UNCHANGED <<uuid, now>>

\* the tasks/list requests of the clients
NoTimestamp == [given |-> FALSE, looksLikeDate |-> FALSE, time |-> NoNumber]

ListParams(pageSize, pageToken, status, includeArtifacts) ==
    [pageSize |-> pageSize, pageToken |-> pageToken, contextId |-> NoId, status |-> status,
     historyLength |-> NoNumber, statusTimestampAfter |-> NoTimestamp,
     includeArtifacts |-> includeArtifacts]

ListInputs ==
    { ListParams(NoNumber, <<>>, "", a) : a \in BOOLEAN }
      \cup { ListParams(NoNumber, <<>>, WORKING, FALSE), ListParams(150, <<>>, "", FALSE) }
      \cup { [ListParams(NoNumber, <<>>, "", TRUE) EXCEPT !.historyLength = 0],
              [ListParams(NoNumber, <<>>, "", FALSE) EXCEPT !.historyLength = 1] }

TasksList ==
    \E id \in {QueryId}, params \in ListInputs :
        /\ AfterChange
        /\ Observed([name |-> "tasks/list", id |-> id, params |-> params],
                    HandleTasksList(tasks, id, params))
        /\ UNCHANGED <<tasks, calls, uuid, now>>

\* time passes between two steps
Tick ==
    /\ now < MaxClock
    /\ now' = now + 1
    /\ Observed([name |-> "tick"], NoResponse)
    /\ UNCHANGED <<tasks, calls, uuid>>

Next ==
    \/ MessageSend
    \/ ReturnMessage
    \/ ReturnWorking
    \/ ReturnTask
    \/ HandlerThrow
    \/ SendStatus
    \/ SendArtifact
    \/ TasksGet
    \/ TasksCancel
    \/ TasksList
    \/ Tick

Spec == Init /\ [][Next]_vars

\* The store with several tasks: the requests and the ends of the callbacks,
\* without the callbacks' use of their contexts.
StoreSend == SendWithin(MaxStoreTasks, MaxStoreCalls)

NextStore ==
    \/ StoreSend
    \/ ReturnMessage
    \/ ReturnWorking
    \/ ReturnTask
    \/ HandlerThrow
    \/ TasksCancel
    \/ Tick

SpecStore == Init /\ [][NextStore]_vars

\* The store as tasks/get and tasks/list read it: accepted requests,
\* callbacks that answer with a message, and reads with their parameters.
ListSendInputs ==
    { SendParams(MessageValue(MessageId(Len(calls) + 1), t, c)) :
        t \in {NoId} \cup MapKeys(tasks), c \in ContextIdInputs }

\* a message/send that is accepted
ListSend ==
    \E id \in {Len(calls) + 1}, params \in ListSendInputs :
        LET out == HandleMessageSend(tasks, calls, uuid, id, params, now)
        IN  /\ out.resp.kind = "none"
            /\ Len(out.calls) <= MaxListCalls
            /\ Len(out.tasks) <= MaxListTasks
            /\ tasks' = out.tasks
            /\ calls' = out.calls
            /\ uuid' = out.uuid
            /\ Observed([name |-> "message/send", id |-> id, params |-> params, call |-> Len(out.calls)],
                        out.resp)
            /\ UNCHANGED now

ListGetInputs == {NoLength, 0, 1, MaxListCalls}

ListGet ==
    \E id \in {QueryId}, t \in MapKeys(tasks), h \in ListGetInputs :
        /\ AfterChange
        /\ Observed([name |-> "tasks/get", id |-> id, params |-> [id |-> t, historyLength |-> h]],
                    HandleTasksGet(tasks, id, [id |-> t, historyLength |-> h]))
        /\ UNCHANGED <<tasks, calls, uuid, now>>

\* statusTimestampAfter: an ISO 8601 string of the time
TimestampAt(time) == [given |-> TRUE, looksLikeDate |-> TRUE, time |-> time]

\* tasks/list requests that page and filter, and requests that choose what
\* is shown of a task
ListFilters ==
    { ListParams(NoNumber, <<>>, "", FALSE),
      ListParams(NoNumber, <<>>, COMPLETED, FALSE),
      [ListParams(NoNumber, <<>>, "", FALSE) EXCEPT !.contextId = CHOOSE c \in ClientContextIds : TRUE],
      [ListParams(NoNumber, <<>>, "", FALSE) EXCEPT !.statusTimestampAfter = TimestampAt(MaxClock)] }

ListQueryInputs ==
    { [f EXCEPT !.pageSize = pageSize, !.pageToken = pageToken] :
        f \in ListFilters, pageSize \in {1, 2}, pageToken \in {<<>>, <<"1">>} }
      \cup { ListParams(pageSize, <<>>, "", FALSE) : pageSize \in {0, 150} }
      \cup { [ListParams(NoNumber, <<>>, "", FALSE) EXCEPT !.historyLength = h] :
                h \in {NoNumber, 0, 1, MaxListCalls} }

ListQuery ==
    \E id \in {QueryId}, params \in ListQueryInputs :
        /\ AfterChange
        /\ Observed([name |-> "tasks/list", id |-> id, params |-> params],
                    HandleTasksList(tasks, id, params))
        /\ UNCHANGED <<tasks, calls, uuid, now>>

NextList ==
    \/ ListSend
    \/ ReturnMessage
    \/ ListGet
    \/ ListQuery
    \/ Tick

SpecList == Init /\ [][NextList]_vars

\* ------------------------------------------------------------------------
\* The JSON-RPC endpoint over HTTP: handleJsonRpc, the validation of the
\* envelope and the dispatch by method name
\* ------------------------------------------------------------------------
PARSE_ERROR == -32700
INVALID_REQUEST == -32600
METHOD_NOT_FOUND == -32601
INTERNAL_ERROR == -32603

\* the id of a request that has none, and null
NullId == -1

\* id ?? randomUUID(), lines 844 and 850: a response to a null id gets a
\* fresh identifier as its id
Respond(r, drawn) ==
    IF r.kind # "none" /\ r.id = NullId
    THEN [resp |-> [r EXCEPT !.id = RandomUUID(drawn)], uuid |-> drawn + 1]
    ELSE [resp |-> r, uuid |-> drawn]

\* The parsed body of a request: a JavaScript value.  An envelope is an
\* object with the members id, jsonrpc, method and params, each a value;
\* a member the body does not have is JsUndefined.
NumberValue(n) == [kind |-> "number", value |-> n]
StringValue(text) == [kind |-> "string", text |-> text]
ObjectValue(value) == [kind |-> "object", value |-> value]
JsArray == [kind |-> "array"]
JsObject == [kind |-> "object"]

Envelope(id, jsonrpc, method, params) ==
    [kind |-> "object", id |-> id, jsonrpc |-> jsonrpc, method |-> method, params |-> params]

\* a body JSON.parse throws on
Malformed == [kind |-> "malformed"]

Invalid(id, code, message) == [valid |-> FALSE, id |-> id, code |-> code, message |-> message]

\* lines 802-841
ValidateEnvelope_MethodFirst(req) ==
    IF ~Truthy(req) \/ TypeOf(req) # "object"
    THEN Invalid(NullId, INVALID_REQUEST, "Invalid Request")
    ELSE
    LET rid == Prop(req, "id")
        id == IF TypeOf(rid) = "number" THEN rid.value ELSE NullId
    IN  IF TypeOf(Prop(req, "method")) # "string"
        THEN Invalid(id, INVALID_REQUEST, "Invalid Request: method must be a string")
        ELSE IF TypeOf(rid) \notin {"string", "number"} /\ rid.kind \notin {"undefined", "null"}
        THEN Invalid(NullId, INVALID_REQUEST, "Invalid Request: id must be string or number")
        ELSE IF Prop(req, "jsonrpc") # StringValue("2.0")
        THEN Invalid(id, INVALID_REQUEST, "Invalid Request: jsonrpc must be \"2.0\"")
        ELSE IF Prop(req, "params").kind \notin {"undefined", "null"} /\ TypeOf(Prop(req, "params")) # "object"
        THEN Invalid(id, INVALID_PARAMS, "Invalid params: must be object or array")
        ELSE [valid |-> TRUE, id |-> id, code |-> 0, message |-> ""]

ValidateEnvelope(req) ==
    IF ~Truthy(req) \/ TypeOf(req) # "object"
    THEN Invalid(NullId, INVALID_REQUEST, "Invalid Request")
    ELSE
    LET rid == Prop(req, "id")
        id == IF TypeOf(rid) = "number" THEN rid.value ELSE NullId
    IN  IF TypeOf(rid) \notin {"string", "number"} /\ rid.kind \notin {"undefined", "null"}
        THEN Invalid(NullId, INVALID_REQUEST, "Invalid Request: id must be string or number")
        ELSE IF Prop(req, "jsonrpc") # StringValue("2.0")
        THEN Invalid(id, INVALID_REQUEST, "Invalid Request: jsonrpc must be \"2.0\"")
        ELSE IF TypeOf(Prop(req, "method")) # "string"
        THEN Invalid(id, INVALID_REQUEST, "Invalid Request: method must be a string")
        ELSE IF Prop(req, "params").kind \notin {"undefined", "null"} /\ TypeOf(Prop(req, "params")) # "object"
        THEN Invalid(id, INVALID_PARAMS, "Invalid params: must be object or array")
        ELSE [valid |-> TRUE, id |-> id, code |-> 0, message |-> ""]

\* lines 780-800: methodMap[method] || method.  methodMap is an object
\* literal, so the name of a member of Object.prototype finds that member,
\* which is no string.
InheritedMembers == {"constructor", "toString"}
NotAString == "[object]"

normalizeMethodName_NoDotList(method) ==
    CASE method \in {"SendMessage", "sendMessage", "message.send"} -> "message/send"
      [] method \in {"GetTask", "getTask", "tasks.get"} -> "tasks/get"
      [] method \in {"CancelTask", "cancelTask", "tasks.cancel"} -> "tasks/cancel"
      [] method \in {"ListTasks", "listTasks"} -> "tasks/list"
      [] method \in {"GetAgentCard", "getAgentCard", "agent.card"} -> "agent/card"
      [] method \in InheritedMembers -> NotAString
      [] OTHER -> method

normalizeMethodName(method) ==
    CASE method \in {"SendMessage", "sendMessage", "message.send"} -> "message/send"
      [] method \in {"GetTask", "getTask", "tasks.get"} -> "tasks/get"
      [] method \in {"CancelTask", "cancelTask", "tasks.cancel"} -> "tasks/cancel"
      [] method \in {"ListTasks", "listTasks", "tasks.list"} -> "tasks/list"
      [] method \in {"GetAgentCard", "getAgentCard", "agent.card"} -> "agent/card"
      [] method \in InheritedMembers -> NotAString
      [] OTHER -> method

\* params of a request as the handlers read them: the members of an object;
\* an array and an absent params have none of the members
SendArg(p) == IF p.kind = "object" /\ "value" \in DOMAIN p THEN p.value ELSE p
GetArg(p) == IF p.kind = "object" /\ "value" \in DOMAIN p THEN p.value ELSE [id |-> NoId, historyLength |-> NoLength]
CancelArg(p) == IF p.kind = "object" /\ "value" \in DOMAIN p THEN p.value ELSE [id |-> NoId]
ListArg(p) == IF p.kind = "object" /\ "value" \in DOMAIN p THEN p.value ELSE ListParams(NoNumber, <<>>, "", FALSE)

\* the result of agent/card: config.agentCard
CardResult == [shape |-> "card", task |-> NoTask, list |-> NoList]

\* lines 439-469: the response, or none yet for an accepted message/send,
\* and the store, the invocations and the identifiers drawn
routeMethod(store, cs, drawn, id, method, params, time) ==
    LET normalizedMethod == normalizeMethodName(method)
        same(r) == [resp |-> r, tasks |-> store, calls |-> cs, uuid |-> drawn]
    IN  CASE normalizedMethod = "message/send" ->
               HandleMessageSend(store, cs, drawn, id, SendArg(params), time)
          [] normalizedMethod = "tasks/get" ->
               same(HandleTasksGet(store, id, GetArg(params)))
          [] normalizedMethod = "tasks/cancel" ->
               LET out == HandleTasksCancel(store, id, CancelArg(params), time)
               IN  [resp |-> out.resp, tasks |-> out.tasks,
                    calls |-> IF out.resp.kind = "result" THEN Touch(cs, CancelArg(params).id) ELSE cs,
                    uuid |-> drawn]
          [] normalizedMethod = "tasks/list" ->
               same(HandleTasksList(store, id, ListArg(params)))
          [] normalizedMethod = "agent/card" ->
               same(jsonRpcSuccess(id, CardResult))
          [] OTHER ->
               same(jsonRpcError(id, METHOD_NOT_FOUND, "Method not found"))

\* what a handler returned, with the response as it is written and the
\* identifiers drawn by then
Sent(out) == Respond(out.resp, out.uuid) @@ out

\* routeMethod and the id of its response
Dispatch(store, cs, drawn, id, method, params, time) ==
    Sent(routeMethod(store, cs, drawn, id, method, params, time))

\* the error of a request that failed the validation, lines 421-427
ValidationError(validation) == jsonRpcError(validation.id, validation.code, validation.message)

\* lines 398-437: the stage at which the request was answered, the response
\* and what the request left behind
handleJsonRpc(store, cs, drawn, authorized, body, time) ==
    IF ~authorized
    THEN [stage |-> "unauthorized"]
           @@ Sent([resp |-> jsonRpcError(NullId, INTERNAL_ERROR, "Unauthorized"),
                    tasks |-> store, calls |-> cs, uuid |-> drawn])
    ELSE IF body = Malformed
    THEN [stage |-> "parse"]
           @@ Sent([resp |-> jsonRpcError(NullId, PARSE_ERROR, "Parse error"),
                    tasks |-> store, calls |-> cs, uuid |-> drawn])
    ELSE IF ~ValidateEnvelope(body).valid
    THEN [stage |-> "envelope"]
           @@ Sent([resp |-> ValidationError(ValidateEnvelope(body)),
                    tasks |-> store, calls |-> cs, uuid |-> drawn])
    ELSE [stage |-> "routed"]
           @@ Dispatch(store, cs, drawn, ValidateEnvelope(body).id, body.method.text, body.params, time)

MaxRpcTasks == 1
MaxRpcCalls == 2
MaxRpcUuid == 3

\* the names clients send for each method, and names that are no method
Spellings(method) ==
    CASE method = "message/send" -> {"message/send", "SendMessage", "sendMessage", "message.send"}
      [] method = "tasks/get" -> {"tasks/get", "GetTask", "getTask", "tasks.get"}
      [] method = "tasks/cancel" -> {"tasks/cancel", "CancelTask", "cancelTask", "tasks.cancel"}
      [] method = "tasks/list" -> {"tasks/list", "ListTasks", "listTasks", "tasks.list"}
      [] method = "agent/card" -> {"agent/card", "GetAgentCard", "getAgentCard", "agent.card"}
      [] OTHER -> {"tasks/unknown", "constructor"}
Methods == {"message/send", "tasks/get", "tasks/cancel", "tasks/list", "agent/card", "none"}

\* the requests of the clients: well-formed envelopes of every spelling
RpcTaskIds == {UnknownTaskId} \cup MapKeys(tasks)

RpcParams(method) ==
    CASE method = "message/send" ->
           { SendParams(MessageValue(MessageId(Len(calls) + 1), t, NoId)) : t \in {NoId} \cup MapKeys(tasks) }
      [] method = "tasks/get" ->
           { [id |-> t, historyLength |-> NoLength] : t \in RpcTaskIds }
      [] method = "tasks/cancel" ->
           { [id |-> t] : t \in RpcTaskIds }
      [] method = "tasks/list" ->
           { ListParams(NoNumber, <<>>, "", FALSE) }
      [] OTHER -> { [id |-> UnknownTaskId] }

RpcId(method) == IF method = "message/send" THEN Len(calls) + 1 ELSE QueryId

WellFormed ==
    UNION { { Envelope(NumberValue(RpcId(m)), StringValue("2.0"), StringValue(name), ObjectValue(p)) :
                name \in Spellings(m), p \in RpcParams(m) } : m \in Methods }

\* bodies that are no JSON, no object, or lack or spoil members of the
\* envelope, in every combination
Spoiled ==
    { Envelope(id, jsonrpc, method, params) :
        id \in {NumberValue(QueryId), JsUndefined, JsNull, JsObject},
        jsonrpc \in {StringValue("2.0"), StringValue("1.0"), JsUndefined},
        method \in {StringValue("tasks/get"), JsNumber, JsUndefined},
        params \in {ObjectValue([id |-> UnknownTaskId, historyLength |-> NoLength]),
                    JsUndefined, JsArray, JsString} }

Bodies == {Malformed, JsNull, JsString, JsNumber, JsArray} \cup Spoiled \cup WellFormed

\* the bodies sent without the authorization the server asks for
UnauthorizedBodies == {Malformed, JsNull, Envelope(NumberValue(QueryId), StringValue("2.0"), StringValue("tasks/list"), JsUndefined)}

\* requests that leave the store as it is are taken after a step that
\* changed it: what they answer depends on the store alone
AfterStoreChange == op.name # "http" \/ prev.tasks # tasks \/ prev.calls # calls

\* a POST to / or /rpc, lines 371-374 and 398-437
HttpRequest ==
    \E authorized \in BOOLEAN : \E body \in IF authorized THEN Bodies ELSE UnauthorizedBodies :
        \E out \in {handleJsonRpc(tasks, calls, uuid, authorized, body, now)} :
            /\ out.tasks = tasks /\ out.calls = calls => AfterStoreChange
            /\ Len(out.calls) <= MaxRpcCalls
            /\ Len(out.tasks) <= MaxRpcTasks
            /\ out.uuid <= MaxRpcUuid
            /\ tasks' = out.tasks
            /\ calls' = out.calls
            /\ uuid' = out.uuid
            /\ ObservedWith([name |-> "http", authorized |-> authorized, body |-> body,
                             stage |-> out.stage,
                             call |-> IF Len(out.calls) > Len(calls) THEN Len(out.calls) ELSE 0],
                            out.resp,
                            IF out.resp.kind = "none" THEN NoStatus ELSE HttpStatus(out.stage))
            /\ UNCHANGED now

\* a value a callback may throw whose String(err) throws in turn, as
\* Object.create(null)
Unprintable == "unprintable"

\* the body handleRequest writes when handleJsonRpc throws, lines 386-389:
\* {error: 'Internal server error'}, no JSON-RPC response
PlainError(message) == [kind |-> "plain", id |-> 0, code |-> 0, message |-> message, result |-> NoResult]

\* lines 581-590 for such a value: String(err) throws inside the catch block
\* before task.status is assigned, so the promise of handleMessageSend is
\* rejected.  routeMethod returned that promise without awaiting it (line
\* 449), so its own catch (464-467) does not run; the await of line 434
\* throws and handleRequest answers with status 500.
HandlerThrowUnprintable ==
    \E c \in 1..Len(calls) :
        /\ Running(c)
        /\ calls' = Finish(calls, c, "done")
        /\ ObservedWith([name |-> "throw", call |-> c, err |-> Unprintable],
                        PlainError("Internal server error"), 500)
        /\ UNCHANGED <<tasks, uuid, now>>

NextRpc ==
    \/ HttpRequest
    \/ ReturnMessage
    \/ ReturnWorking
    \/ HandlerThrow
    \/ HandlerThrowUnprintable

SpecRpc == Init /\ [][NextRpc]_vars

\* ------------------------------------------------------------------------
\* The relay client with its sockets, its timer, the relay and the
\* application that calls connect() and disconnect()
\* ------------------------------------------------------------------------
serverVars == <<tasks, calls, uuid, now, op, resp, prev, http>>

RelayStep(o, c) == client' = c /\ rop' = o /\ before' = client /\ UNCHANGED serverVars

InitRelay ==
    /\ \E autoReconnect \in BOOLEAN :
         client = Constructed(autoReconnect) /\ before = Constructed(autoReconnect)
    /\ rop = [name |-> "constructed"]
    /\ tasks = <<>>
    /\ calls = <<>>
    /\ uuid = 0
    /\ now = 0
    /\ op = [name |-> "init"]
    /\ resp = NoResponse
    /\ prev = [tasks |-> <<>>, calls |-> <<>>, uuid |-> 0]
    /\ http = NoStatus

NeverConnected(c) == \A s \in 1..MaxSockets : c.sockets[s].caller = "none"
Quiet(c) == FreeSockets(c) = 1..MaxSockets /\ c.timers = 0

\* the application calls connect(): at the start, after a disconnect(), and
\* when nothing of an earlier connect() is left
Connect ==
    /\ NeverConnected(client) \/ client.isStopping \/ Quiet(client)
    /\ FreeSockets(client) # {}
    /\ RelayStep([name |-> "connect", socket |-> connect(client).ws], connect(client))

\* the application calls disconnect()
Disconnect ==
    /\ ~NeverConnected(client)
    /\ ~client.isStopping
    /\ RelayStep([name |-> "disconnect", socket |-> client.ws], disconnect(client))

\* 'open' of socket s, lines 55-58
Open ==
    \E s \in 1..MaxSockets :
        /\ client.sockets[s].readyState = "CONNECTING"
        /\ RelayStep([name |-> "open", socket |-> s],
                     sendAuth([client EXCEPT !.sockets[s].readyState = "OPEN"]))

\* the handshake of socket s fails, or was aborted by close(): the socket
\* emits 'error' and 'close' one after the other
HandshakeFails ==
    \E s \in 1..MaxSockets :
        /\ \/ client.sockets[s].readyState = "CONNECTING"
           \/ client.sockets[s].readyState = "CLOSING" /\ client.sockets[s].aborted
        /\ RelayStep([name |-> "fail", socket |-> s], onClose(onError(client, s), s))

\* 'error' of an open socket s; its 'close' follows when the closing
\* handshake ends
SocketError ==
    \E s \in 1..MaxSockets :
        /\ client.sockets[s].readyState = "OPEN"
        /\ RelayStep([name |-> "error", socket |-> s],
                     [onError(client, s) EXCEPT !.sockets[s].readyState = "CLOSING"])

\* 'close' of socket s: the relay or the network closed it, or its closing
\* handshake ended
SocketClose ==
    \E s \in 1..MaxSockets :
        /\ client.sockets[s].readyState \in {"OPEN", "CLOSING"}
        /\ ~client.sockets[s].aborted
        /\ RelayStep([name |-> "close", socket |-> s], onClose(client, s))

\* the relay answers the auth frame of a connection, once
AuthAnswers == {"auth_ok", "auth_error"}

RelayAnswersAuth ==
    \E s \in 1..MaxSockets, type \in AuthAnswers :
        /\ client.sockets[s].readyState = "OPEN"
        /\ \E i \in 1..Len(client.sockets[s].outbox) : client.sockets[s].outbox[i].type = "auth"
        /\ client.sockets[s].inbox = <<>>
        /\ client.sockets[s].handled \cap AuthAnswers = {}
        /\ RelayStep([name |-> "relay", socket |-> s, type |-> type],
                     [client EXCEPT !.sockets[s].inbox = Append(@, [type |-> type])])

\* 'message' of socket s, lines 60-67; the ws library emits the messages it
\* received while the socket is CLOSING as well.  A frame that JSON.parse
\* rejects is logged by the catch of line 64 and nothing else happens.
Message ==
    \E s \in 1..MaxSockets :
        /\ client.sockets[s].readyState \in {"OPEN", "CLOSING"}
        /\ ~client.sockets[s].aborted
        /\ client.sockets[s].inbox # <<>>
        /\ \E received \in {[client EXCEPT !.sockets[s].inbox = Tail(@),
                                           !.sockets[s].handled = @ \cup {Head(client.sockets[s].inbox).type}]} :
             RelayStep([name |-> "message", socket |-> s, msg |-> Head(client.sockets[s].inbox)],
                       IF Head(client.sockets[s].inbox).type = "undecodable"
                       THEN received
                       ELSE handleMessage(received, s, Head(client.sockets[s].inbox)))

\* the reconnect timer fires, lines 173-181
TimerFires ==
    /\ client.timers > 0
    /\ FreeSockets(client) # {}
    /\ RelayStep([name |-> "timer", socket |-> timerCallback(client).ws], timerCallback(client))

NextRelay ==
    \/ Connect
    \/ Disconnect
    \/ Open
    \/ HandshakeFails
    \/ SocketError
    \/ SocketClose
    \/ RelayAnswersAuth
    \/ Message
    \/ TimerFires

SpecRelay == InitRelay /\ [][NextRelay]_vars

\* ------------------------------------------------------------------------
\* The relay client serving the requests the relay forwards, over
\* connections that the relay closes and the client opens again
\* ------------------------------------------------------------------------
MaxRequests == 3
MaxPeerRequests == 1

RelayIds == {"r1", "r2"}
Requests == {[id |-> "a", method |-> "message/send"], [id |-> "b", method |-> "tasks/get"]}

\* the a2a.request frames the relay sent that have not been handled
Forwarded(c) ==
    LET RECURSIVE count(_)
        count(s) == IF s = 0 THEN 0
                    ELSE count(s - 1) +
                         Cardinality({ i \in 1..Len(c.sockets[s].inbox) :
                                         c.sockets[s].inbox[i].type = "a2a.request" })
    IN  count(MaxSockets)

\* the relay forwards a request of a caller to an authenticated connection
RelayRequest ==
    \E s \in 1..MaxSockets, id \in RelayIds, request \in Requests :
        /\ client.sockets[s].readyState = "OPEN"
        /\ "auth_ok" \in client.sockets[s].handled
        /\ client.requests + Forwarded(client) < MaxRequests
        /\ RelayStep([name |-> "relay", socket |-> s, type |-> "a2a.request"],
                     [client EXCEPT !.sockets[s].inbox =
                          Append(@, [type |-> "a2a.request",
                                     payload |-> [id |-> id, params |-> request]])])

\* the relay sends a keepalive ping
RelayPing ==
    \E s \in 1..MaxSockets :
        /\ client.sockets[s].readyState = "OPEN"
        /\ "auth_ok" \in client.sockets[s].handled
        /\ "ping" \notin client.sockets[s].handled
        /\ client.sockets[s].inbox = <<>>
        /\ RelayStep([name |-> "relay", socket |-> s, type |-> "ping"],
                     [client EXCEPT !.sockets[s].inbox = Append(@, [type |-> "ping"])])

\* the frames sent on all sockets since they were opened
SentFrames(c) ==
    LET RECURSIVE count(_)
        count(s) == IF s = 0 THEN 0 ELSE count(s - 1) + Len(c.sockets[s].outbox)
    IN  count(MaxSockets)

\* config.onRequest of the i-th invocation in progress completes, lines
\* 127-136
HandlerDone ==
    \E i \in 1..Len(client.handlers), outcome \in Outcomes :
        \E d \in {completeRequest(client, i, outcome)} :
            RelayStep([name |-> "handler", invocation |-> client.handlers[i], outcome |-> outcome],
                      [d EXCEPT !.answered = IF SentFrames(d) > SentFrames(client)
                                             THEN Append(@, client.handlers[i].frame)
                                             ELSE @])

NextFrames ==
    \/ Connect
    \/ Open
    \/ SocketClose
    \/ RelayAnswersAuth
    \/ Message
    \/ TimerFires
    \/ RelayRequest
    \/ RelayPing
    \/ HandlerDone

SpecFrames == InitRelay /\ [][NextFrames]_vars

\* ------------------------------------------------------------------------
\* The auth frame on the wire, for the configurations of a client
\* ------------------------------------------------------------------------
MaxLen == 2

Alphabet == {"a", "\"", "\\", "\n"}

RECURSIVE StringsOf(_)
StringsOf(n) ==
    IF n = 0 THEN {<<>>}
    ELSE StringsOf(n - 1) \cup { Append(w, ch) : w \in { v \in StringsOf(n - 1) : Len(v) = n - 1 }, ch \in Alphabet }

Strings == StringsOf(MaxLen)
Names == {<<"a">>, <<"\"">>, <<"\\", "n">>}

Descriptions == {Absent, Undefined, Str(<<>>), Str(<<"\\", "\"">>)}
Streamings == {Absent, Undefined, Bool(TRUE), Bool(FALSE)}
InputModes == {Absent, Arr(<<>>), Arr(<<Str(<<"a">>)>>), Arr(<<Str(<<"\"">>), Str(<<>>)>>)}
HttpBearer == Obj(<< <<TypeKey, Str(<<"h", "t", "t", "p">>)>>, <<SchemeKey, Str(<<"b", "e", "a", "r", "e", "r">>)>> >>)
SecuritySchemes == {Absent, Obj(<< <<(<<"k">>), HttpBearer>> >>), Obj(<< <<(<<"\"", "\\">>), HttpBearer>> >>)}

AgentCards ==
    { AgentCard(name, description, streaming, modes, schemes) :
        name \in Names, description \in Descriptions, streaming \in Streamings,
        modes \in InputModes, schemes \in SecuritySchemes }

Configs ==
    { [autoReconnect |-> TRUE, token |-> token, tenant |-> tenant, agentId |-> agentId, agentCard |-> card] :
        token \in Strings, tenant \in {<<"t">>, <<"\"", "t">>}, agentId \in {<<"a">>, <<"\\">>},
        card \in AgentCards }

InitAuth ==
    /\ \E config \in Configs :
         /\ client = [Constructed(TRUE) EXCEPT !.config = config]
         /\ before = [Constructed(TRUE) EXCEPT !.config = config]
    /\ rop = [name |-> "constructed"]
    /\ tasks = <<>>
    /\ calls = <<>>
    /\ uuid = 0
    /\ now = 0
    /\ op = [name |-> "init"]
    /\ resp = NoResponse
    /\ prev = [tasks |-> <<>>, calls |-> <<>>, uuid |-> 0]
    /\ http = NoStatus

\* the relay decodes the auth frame it received on socket s
RelayDecodes ==
    \E s \in 1..MaxSockets :
        /\ client.sockets[s].readyState = "OPEN"
        /\ rop.name = "open"
        /\ \E i \in 1..Len(client.sockets[s].outbox) :
             /\ client.sockets[s].outbox[i].type = "auth"
             /\ \E frame \in {JSONparse(client.sockets[s].outbox[i].text)} :
                  RelayStep([name |-> "decode", socket |-> s, frame |-> frame], client)

NextAuth ==
    \/ Connect
    \/ Open
    \/ RelayDecodes

SpecAuth == InitAuth /\ [][NextAuth]_vars

\* ------------------------------------------------------------------------
\* The relay client and a relay that sends any frame at any time on an open
\* connection, authenticated or not
\* ------------------------------------------------------------------------
PeerFrames ==
    { [type |-> "a2a.request", payload |-> [id |-> "r1", params |-> [id |-> "a", method |-> "message/send"]]],
      [type |-> "ping"],
      [type |-> "unknown"],
      [type |-> "undecodable"] }

\* the relay sends a frame on socket s: one frame of PeerFrames on the
\* connections that are live at a time
RelaySends ==
    \E s \in 1..MaxSockets, frame \in PeerFrames :
        /\ client.sockets[s].readyState = "OPEN"
        /\ \A t \in 1..MaxSockets :
              /\ client.sockets[t].inbox = <<>>
              /\ \A sent \in PeerFrames : sent.type \notin client.sockets[t].handled
        /\ frame.type = "a2a.request" => client.requests + Forwarded(client) < MaxPeerRequests
        /\ RelayStep([name |-> "relay", socket |-> s, type |-> frame.type],
                     [client EXCEPT !.sockets[s].inbox = Append(@, frame)])

NextPeer ==
    \/ Connect
    \/ Open
    \/ HandshakeFails
    \/ SocketError
    \/ SocketClose
    \/ RelayAnswersAuth
    \/ Message
    \/ TimerFires
    \/ RelaySends
    \/ HandlerDone

SpecPeer == InitRelay /\ [][NextPeer]_vars

\* What the timers of the runtime and the ws library guarantee: a timeout
\* that is not cleared fires; a socket whose close() was called emits
\* 'close' (the closing handshake has a timeout), and one whose handshake
\* was aborted emits 'error' and 'close' at the next tick.
ClosingEnds(s) ==
    /\ client.sockets[s].readyState = "CLOSING"
    /\ ~client.sockets[s].aborted
    /\ RelayStep([name |-> "close", socket |-> s], onClose(client, s))

AbortEnds(s) ==
    /\ client.sockets[s].readyState = "CLOSING"
    /\ client.sockets[s].aborted
    /\ RelayStep([name |-> "fail", socket |-> s], onClose(onError(client, s), s))

RelayFairness ==
    /\ WF_vars(TimerFires)
    /\ \A s \in 1..MaxSockets : WF_vars(ClosingEnds(s)) /\ WF_vars(AbortEnds(s))

SpecRelayLive == InitRelay /\ [][NextRelay]_vars /\ RelayFairness

\* ------------------------------------------------------------------------
\* Properties.  Each is a predicate on the state after a step: op tells the
\* step, resp its response, prev the store and the invocations before it.
\* ------------------------------------------------------------------------
Terminal == {COMPLETED, FAILED, CANCELED, REJECTED}
NonTerminal == {SUBMITTED, WORKING, INPUT_REQUIRED}

StateOf(store, t) == MapGet(store, t).status.state
Last(q) == q[Len(q)]
Contains(q, x) == \E i \in 1..Len(q) : q[i] = x

\* the last step was a message/send whose params pass the structural checks
\* and whose message names task t
SendNaming(t) ==
    /\ op.name = "message/send"
    /\ op.params \notin InvalidSendParams
    /\ op.params.message.taskId = t

\* the last step was a tasks/cancel of task t
CancelOf(t) == op.name = "tasks/cancel" /\ op.params.id = t

\* the last step changed neither the store nor the invocations of the callback
NothingDone == tasks = prev.tasks /\ calls = prev.calls /\ uuid = prev.uuid

\* the last step answered its request with the error code
Refused(code) == resp.kind = "error" /\ resp.code = code /\ resp.id = op.id

\* C1: once the state of a stored task is COMPLETED, FAILED, CANCELED or
\* REJECTED, no step changes it.
C1_TerminalStateIsFinal ==
    \A t \in MapKeys(prev.tasks) :
        StateOf(prev.tasks, t) \in Terminal =>
            MapHas(tasks, t) /\ StateOf(tasks, t) = StateOf(prev.tasks, t)

\* C2: a message/send that names a task in a terminal state is answered with
\* UNSUPPORTED_OPERATION and a tasks/cancel of such a task with
\* TASK_NOT_CANCELABLE; neither changes the stored task nor invokes the
\* callback.
C2_TerminalTaskRejects ==
    \A t \in MapKeys(prev.tasks) :
        StateOf(prev.tasks, t) \in Terminal =>
            /\ SendNaming(t) => Refused(UNSUPPORTED_OPERATION) /\ NothingDone
            /\ CancelOf(t) => Refused(TASK_NOT_CANCELABLE) /\ NothingDone

C2_Witness ==
    /\ resp.kind = "error"
    /\ \/ op.name = "tasks/cancel" /\ resp.code = TASK_NOT_CANCELABLE
       \/ op.name = "message/send" /\ resp.code = UNSUPPORTED_OPERATION
    /\ \E c \in 1..Len(calls) : calls[c].pc = "running"

\* C3: a tasks/cancel of a stored task in a non-terminal state sets the state
\* to CANCELED, with the time of the cancel, and answers with the task; the
\* invocations of the callback stay as they are, suspended ones included.
C3_CancelOfNonTerminal ==
    \A t \in MapKeys(prev.tasks) :
        (CancelOf(t) /\ StateOf(prev.tasks, t) \in NonTerminal) =>
            /\ MapGet(tasks, t).status = Status(CANCELED, NoMessage, now)
            /\ resp = jsonRpcSuccess(op.id, TaskResult(TaskView(MapGet(tasks, t))))
            /\ MapGet(tasks, t).history = MapGet(prev.tasks, t).history
            /\ Len(calls) = Len(prev.calls)
            /\ \A c \in 1..Len(calls) :
                  calls[c].pc = prev.calls[c].pc /\ calls[c].taskId = prev.calls[c].taskId

C3_Witness ==
    /\ op.name = "tasks/cancel"
    /\ resp.kind = "result"
    /\ resp.result.task.status.state = CANCELED
    /\ \E c \in 1..Len(calls) : calls[c].pc = "running" /\ calls[c].taskId = op.params.id

Accepted == op.name = "message/send" /\ op.call # 0

\* the last step was a plain tasks/get of task t
PlainGet(t) ==
    op.name = "tasks/get" /\ op.params.id = t /\ op.params.historyLength = NoLength

\* what every accepted message/send leaves behind when it invokes the callback
InvokedOnWorkingTask ==
    Accepted =>
        LET c == op.call
            t == calls[c].taskId
        IN  /\ Len(calls) = Len(prev.calls) + 1
            /\ calls[c].pc = "running"
            /\ calls[c].msg = MessageOf(op.params.message)
            /\ MapHas(tasks, t)
            /\ StateOf(tasks, t) = WORKING
            /\ MapGet(tasks, t).status.timestamp = now
            /\ Last(MapGet(tasks, t).history) = calls[c].msg

\* C5 as it is stated: the callback is invoked on a stored task that is
\* WORKING and has the message as the last element of its history, and every
\* tasks/get of the task that is processed while the callback is suspended
\* observes WORKING and the message in the history.
C5_GetWhileSuspendedSeesWorking ==
    /\ InvokedOnWorkingTask
    /\ \A c \in 1..Len(calls) :
          (calls[c].pc = "running" /\ PlainGet(calls[c].taskId)) =>
              /\ resp.kind = "result"
              /\ resp.result.task.status.state = WORKING
              /\ Contains(resp.result.task.history, calls[c].msg)

\* C5, amended: the callback is invoked on a stored task that is WORKING and
\* has the message as the last element of its history; a tasks/get of the
\* task processed while the callback is suspended observes the message in the
\* history, and observes WORKING with the message last as long as nothing
\* wrote to the task since the invocation.
C5_GetWhileSuspended ==
    /\ InvokedOnWorkingTask
    /\ \A c \in 1..Len(calls) :
          (calls[c].pc = "running" /\ PlainGet(calls[c].taskId)) =>
              /\ resp.kind = "result"
              /\ resp.result.task.hasHistory
              /\ Contains(resp.result.task.history, calls[c].msg)
              /\ calls[c].untouched =>
                    /\ resp.result.task.status.state = WORKING
                    /\ Last(resp.result.task.history) = calls[c].msg

C5_Witness ==
    /\ op.name = "tasks/get"
    /\ resp.kind = "result"
    /\ resp.result.task.status.state = WORKING
    /\ Len(resp.result.task.history) = 2
    /\ \E c \in 1..Len(calls) :
          /\ calls[c].pc = "running"
          /\ calls[c].untouched
          /\ calls[c].taskId = op.params.id
          /\ calls[c].msg.taskId # NoId

\* the last step was the return of the callback of a message/send without
\* taskId
ReturnOfNew(type) ==
    op.name = "return" /\ op.type = type /\ prev.calls[op.call].msg.taskId = NoId

\* C6 as it is stated: when the callback of a message/send without taskId
\* returns a message, the response carries the new task, COMPLETED, with the
\* reply as status message and the history [request, reply]; when it returns
\* the working marker, the response carries the task, WORKING, with a history
\* of length 1.
C6_ResponseOfNewTask ==
    /\ ReturnOfNew("message") =>
          /\ resp.kind = "result"
          /\ resp.result.task.id = prev.calls[op.call].taskId
          /\ resp.result.task.status.state = COMPLETED
          /\ resp.result.task.status.message = op.message
          /\ resp.result.task.history = <<prev.calls[op.call].msg, op.message>>
    /\ ReturnOfNew("working") =>
          /\ resp.kind = "result"
          /\ resp.result.task.id = prev.calls[op.call].taskId
          /\ resp.result.task.status.state = WORKING
          /\ Len(resp.result.task.history) = 1

\* C6, amended: with a message, the response carries the task, COMPLETED,
\* with the reply as status message and as the last element of the history;
\* with the working marker, it carries the stored task as it is.  The history
\* is [request, reply], and the task of the working marker WORKING with the
\* history [request], when nothing else wrote to the task while the callback
\* was suspended.
C6_ResponseOfUntouchedNewTask ==
    /\ ReturnOfNew("message") =>
          LET c == prev.calls[op.call]
              t == c.taskId
          IN  /\ resp = jsonRpcSuccess(c.id, WrappedTask(TaskView(MapGet(tasks, t))))
              /\ resp.result.task.id = t
              /\ resp.result.task.status = Status(COMPLETED, op.message, now)
              /\ resp.result.task.history = Append(MapGet(prev.tasks, t).history, op.message)
              /\ Contains(MapGet(prev.tasks, t).history, c.msg)
              /\ c.untouched => resp.result.task.history = <<c.msg, op.message>>
    /\ ReturnOfNew("working") =>
          LET c == prev.calls[op.call]
              t == c.taskId
          IN  /\ resp = jsonRpcSuccess(c.id, WrappedTask(TaskView(MapGet(prev.tasks, t))))
              /\ resp.result.task.id = t
              /\ tasks = prev.tasks
              /\ c.untouched =>
                    /\ resp.result.task.status.state = WORKING
                    /\ resp.result.task.history = <<c.msg>>

C6_Witness ==
    /\ op.name = "return"
    /\ op.type = "message"
    /\ resp.kind = "result"
    /\ resp.result.task.status.state = COMPLETED
    /\ resp.result.task.history = <<calls[op.call].msg, op.message>>
    /\ calls[op.call].msg.taskId = NoId
    /\ prev.calls[op.call].untouched
    /\ Len(calls) = 1

\* the last step was a call, on the context of an invocation that had
\* returned the working marker, of the context's function
AfterWorking(name) == op.name = name /\ prev.calls[op.call].pc = "working"

\* a sendStatus after the working marker sets the status of the stored task,
\* with the time of the call; a sendArtifact appends to its artifacts
ContextWritesStore ==
    /\ AfterWorking("sendStatus") =>
          LET t == prev.calls[op.call].taskId
          IN  /\ MapGet(tasks, t).status = Status(op.status.state, op.status.message, now)
              /\ MapGet(tasks, t).history = MapGet(prev.tasks, t).history
              /\ MapGet(tasks, t).artifacts = MapGet(prev.tasks, t).artifacts
    /\ AfterWorking("sendArtifact") =>
          LET t == prev.calls[op.call].taskId
          IN  /\ MapGet(tasks, t).artifacts = Append(MapGet(prev.tasks, t).artifacts, op.artifact)
              /\ MapGet(tasks, t).status = MapGet(prev.tasks, t).status
              /\ MapGet(tasks, t).history = MapGet(prev.tasks, t).history

\* a tasks/get of a stored task answers with its stored status and artifacts
GetShowsStore ==
    \A t \in MapKeys(tasks) :
        (op.name = "tasks/get" /\ op.params.id = t /\ op.params.historyLength \in {NoLength} \cup Nat) =>
            /\ resp.kind = "result"
            /\ resp.result.task.id = t
            /\ resp.result.task.status = MapGet(tasks, t).status
            /\ resp.result.task.hasArtifacts
            /\ resp.result.task.artifacts = MapGet(tasks, t).artifacts

\* the tasks of the answer to the last step, a tasks/list
Listed == resp.result.list.tasks

\* an accepted tasks/list has every stored task that passes its status filter
\* in its answer, once, with the stored status
ListShowsStatus ==
    (op.name = "tasks/list" /\ resp.kind = "result") =>
        /\ \A i \in 1..Len(Listed) :
              /\ MapHas(tasks, Listed[i].id)
              /\ Listed[i].status = MapGet(tasks, Listed[i].id).status
        /\ \A t \in MapKeys(tasks) :
              (op.params.status \in {"", StateOf(tasks, t)}) =>
                  Cardinality({ i \in 1..Len(Listed) : Listed[i].id = t }) = 1

C9_InvalidSendChangesNothing ==
    (op.name = "message/send" /\ op.params \in InvalidSendParams) =>
        Refused(INVALID_PARAMS) /\ NothingDone

C9_Witness ==
    /\ op.name = "message/send"
    /\ op.params = SendParams([BaseMessage EXCEPT !.parts = [kind |-> "array", items |-> <<>>]])
    /\ resp.code = INVALID_PARAMS
    /\ Len(tasks) = 1

\* C10: an accepted message/send without taskId adds exactly one task to the
\* store, under its own id, which no task of the store has; the task has the
\* contextId of the message or, without one, a contextId no task has; the
\* tasks of the store stay as they are.  The key of every entry is the id of
\* its task.
C10_CreationAddsOneFreshTask ==
    /\ (Accepted /\ op.params.message.taskId = NoId) =>
          LET new == tasks[Len(tasks)]
              given == op.params.message.contextId
              old == prev.tasks
          IN  /\ Len(tasks) = Len(old) + 1
              /\ SubSeq(tasks, 1, Len(old)) = old
              /\ new.key \notin MapKeys(old)
              /\ new.key # NoId
              /\ new.val.id = new.key
              /\ calls[op.call].taskId = new.key
              /\ IF given # NoId THEN new.val.contextId = given
                 ELSE /\ new.val.contextId # NoId
                      /\ new.val.contextId # new.key
                      /\ \A i \in 1..Len(old) :
                            new.val.contextId \notin {old[i].key, old[i].val.contextId}
    /\ \A i, j \in 1..Len(tasks) :
          /\ tasks[i].key = tasks[i].val.id
          /\ tasks[i].key = tasks[j].key => i = j

C10_Witness ==
    /\ Accepted
    /\ op.params.message.taskId = NoId
    /\ op.params.message.contextId = NoId
    /\ Len(tasks) = 2
    /\ tasks[1].val.status.state = COMPLETED

\* q is the start of r
IsPrefix(q, r) == Len(q) <= Len(r) /\ SubSeq(r, 1, Len(q)) = q

\* the place of message m in history h
Position(h, m) == CHOOSE i \in 1..Len(h) : h[i] = m

\* C12: no step removes a stored task's history or an element of it: the
\* history a task had before a step is the start of the history it has after
\* it, whatever the step (a tasks/get or tasks/list with a historyLength
\* included); and the messages of the accepted requests stand in the history
\* of their task in the order in which the requests were accepted.
C12_HistoryAppendOnly ==
    /\ \A t \in MapKeys(prev.tasks) :
          MapHas(tasks, t) /\ IsPrefix(MapGet(prev.tasks, t).history, MapGet(tasks, t).history)
    /\ \A c \in 1..Len(calls) :
          /\ MapHas(tasks, calls[c].taskId)
          /\ Contains(MapGet(tasks, calls[c].taskId).history, calls[c].msg)
    /\ \A c, d \in 1..Len(calls) :
          (c < d /\ calls[c].taskId = calls[d].taskId) =>
              Position(MapGet(tasks, calls[c].taskId).history, calls[c].msg)
                  < Position(MapGet(tasks, calls[d].taskId).history, calls[d].msg)

\* a tasks/get that cuts the history it shows to one message, of a task
\* whose stored history holds two accepted requests and a reply
C12_Witness ==
    /\ op.name = "tasks/get"
    /\ op.params.historyLength = 1
    /\ resp.kind = "result"
    /\ Len(resp.result.task.history) = 1
    /\ Len(calls) = 2
    /\ calls[1].taskId = calls[2].taskId
    /\ Len(MapGet(tasks, calls[1].taskId).history) = 3
    /\ MapGet(tasks, calls[1].taskId).history = MapGet(prev.tasks, calls[1].taskId).history

\* the last step was a tasks/get or a tasks/list that was answered with a result
GotTask == op.name = "tasks/get" /\ resp.kind = "result"
GotList == op.name = "tasks/list" /\ resp.kind = "result"

\* the last k elements of h, in the order of h
LastOf(h, k) == [i \in 1..k |-> h[Len(h) - k + i]]

\* view shows history h as a request with historyLength n has it
ShowsHistory(view, h, n) ==
    IF n = NoLength THEN view.hasHistory /\ view.history = h
    ELSE IF n = 0 THEN ~view.hasHistory
    ELSE view.hasHistory /\ view.history = LastOf(h, IF n < Len(h) THEN n ELSE Len(h))

\* C11: the task of a tasks/get and every task of a tasks/list has no
\* history field when historyLength is 0, the last min(N, len) messages of the
\* stored history, in their order, when historyLength is N > 0, and the whole
\* stored history when historyLength is omitted.
C11_HistoryLengthProjection ==
    /\ GotTask =>
          ShowsHistory(resp.result.task, MapGet(tasks, op.params.id).history, op.params.historyLength)
    /\ GotList =>
          \A i \in 1..Len(Listed) :
              ShowsHistory(Listed[i], MapGet(tasks, Listed[i].id).history, op.params.historyLength)

\* a tasks/get with historyLength 1 of a task with a stored history of
\* three messages shows the last one
C11_Witness ==
    /\ GotTask
    /\ op.params.historyLength = 1
    /\ Len(MapGet(tasks, op.params.id).history) = 3
    /\ resp.result.task.history = <<MapGet(tasks, op.params.id).history[3]>>

\* the ids of the tasks of a list result, in its order
ListedIds(response) == [i \in 1..Len(response.result.list.tasks) |-> response.result.list.tasks[i].id]

\* A client that follows nextPageToken from the page it has, while the store
\* stays as it is, for at most fuel further requests: the ids of the tasks of
\* all the pages, and whether it reached a page with the empty token.
RECURSIVE FollowPages(_, _, _, _)
FollowPages(store, params, page, fuel) ==
    IF page.result.list.nextPageToken = <<>> THEN [ended |-> TRUE, ids |-> ListedIds(page)]
    ELSE IF fuel = 0 THEN [ended |-> FALSE, ids |-> ListedIds(page)]
    ELSE LET next == HandleTasksList(store, QueryId,
                                     [params EXCEPT !.pageToken = page.result.list.nextPageToken])
         IN  IF next.kind # "result" THEN [ended |-> FALSE, ids |-> ListedIds(page)]
             ELSE LET rest == FollowPages(store, params, next, fuel - 1)
                  IN  [ended |-> rest.ended, ids |-> ListedIds(page) \o rest.ids]

\* task passes the filters the request supplies
PassesFilters(task, params) ==
    /\ params.contextId # NoId => task.contextId = params.contextId
    /\ params.status # "" => task.status.state = params.status
    /\ params.statusTimestampAfter.given => task.status.timestamp >= params.statusTimestampAfter.time

Occurrences(q, x) == Cardinality({ i \in 1..Len(q) : q[i] = x })

\* C13: for a tasks/list without page token that is answered with a page,
\* following nextPageToken with the store unchanged reaches the empty token
\* after at most as many further requests as the store has tasks, and the
\* pages together hold every stored task that passes the supplied filters
\* once and no other task.
C13_PagesCoverFilteredSetOnce ==
    (GotList /\ op.params.pageToken = <<>>) =>
        LET walk == FollowPages(tasks, op.params, resp, Len(tasks))
        IN  /\ walk.ended
            /\ \A i \in 1..Len(walk.ids) : MapHas(tasks, walk.ids[i])
            /\ \A t \in MapKeys(tasks) :
                  Occurrences(walk.ids, t) = IF PassesFilters(MapGet(tasks, t), op.params) THEN 1 ELSE 0

\* a first page of one task, with a token to follow, of a store of three
\* tasks of which the status filter passes two
C13_Witness ==
    /\ GotList
    /\ op.params.pageToken = <<>>
    /\ op.params.pageSize = 1
    /\ op.params.status = COMPLETED
    /\ Len(tasks) = 3
    /\ resp.result.list.totalSize = 2
    /\ resp.result.list.nextPageToken = <<"1">>
    /\ Len(FollowPages(tasks, op.params, resp, Len(tasks)).ids) = 2

\* C14: the tasks of a tasks/list result stand in the order of their
\* status.timestamp, latest first, and tasks with the same timestamp in the
\* order in which they were put into the store.
C14_ListedByTimeThenInsertion ==
    GotList =>
        \A i, j \in 1..Len(Listed) :
            i < j =>
                \/ Listed[i].status.timestamp > Listed[j].status.timestamp
                \/ /\ Listed[i].status.timestamp = Listed[j].status.timestamp
                   /\ MapIndex(tasks, Listed[i].id) < MapIndex(tasks, Listed[j].id)

\* the task stored last is the latest and listed first, before two tasks of
\* one timestamp in their order of insertion
C14_Witness ==
    /\ GotList
    /\ Len(Listed) = 3
    /\ MapIndex(tasks, Listed[1].id) = 3
    /\ Listed[1].status.timestamp > Listed[2].status.timestamp
    /\ Listed[2].status.timestamp = Listed[3].status.timestamp
    /\ MapIndex(tasks, Listed[2].id) = 1

\* C15: a tasks/list whose pageSize is a number below 1 or above 100 is
\* answered with INVALID_PARAMS, without tasks, and changes nothing.
C15_PageSizeOutOfRange ==
    (op.name = "tasks/list" /\ op.params.pageSize # NoNumber
        /\ (op.params.pageSize < 1 \/ op.params.pageSize > 100)) =>
        /\ Refused(INVALID_PARAMS)
        /\ resp.result = NoResult
        /\ NothingDone

C15_Witness ==
    /\ op.name = "tasks/list"
    /\ op.params.pageSize = 150
    /\ resp.kind = "error"
    /\ resp.code = INVALID_PARAMS
    /\ Len(tasks) = 3

\* C16 as it is stated: a task of a tasks/list result has the artifacts
\* field only when the request set includeArtifacts, and the history field
\* only when the request asked for history, with a historyLength above 0.
C16_ListOmitsUnlessRequested ==
    GotList =>
        \A i \in 1..Len(Listed) :
            /\ Listed[i].hasArtifacts <=> op.params.includeArtifacts
            /\ Listed[i].hasHistory => (op.params.historyLength # NoNumber /\ op.params.historyLength > 0)

\* C16, amended: a task of a tasks/list result has the artifacts field, with
\* the stored artifacts, exactly when the request set includeArtifacts; it has
\* the history field unless the request set historyLength to 0, and the whole
\* stored history when the request gave no historyLength.
C16_ListOmitsArtifactsAndHistoryOfLengthZero ==
    GotList =>
        \A i \in 1..Len(Listed) :
            /\ Listed[i].hasArtifacts <=> op.params.includeArtifacts
            /\ op.params.includeArtifacts => Listed[i].artifacts = MapGet(tasks, Listed[i].id).artifacts
            /\ Listed[i].hasHistory <=> op.params.historyLength # 0
            /\ op.params.historyLength = NoNumber => Listed[i].history = MapGet(tasks, Listed[i].id).history

\* a list with includeArtifacts and historyLength 0 shows the artifact of
\* the task and no history
C16_Witness ==
    /\ GotList
    /\ op.params.includeArtifacts
    /\ op.params.historyLength = 0
    /\ Len(Listed) = 1
    /\ Listed[1].hasArtifacts
    /\ Listed[1].artifacts = <<"artifact">>
    /\ ~Listed[1].hasHistory
    /\ Len(MapGet(tasks, Listed[1].id).history) = 2

\* ------------------------------------------------------------------------
\* Properties of the JSON-RPC endpoint, checked under SpecRpc
\* ------------------------------------------------------------------------
\* the last step answered a POST to / or /rpc
Posted == op.name = "http"

UndeterminedId ==
    /\ Posted /\ op.authorized
    /\ \/ op.body = Malformed
       \/ /\ op.body.kind = "object" /\ "id" \in DOMAIN op.body
          /\ op.body.id.kind \notin {"undefined", "null", "number", "string"}

C18_NullIdOnUndeterminedId ==
    /\ UndeterminedId => resp.kind = "error" /\ resp.id = NullId
    /\ resp.kind # "none" /\ resp.id = NullId => UndeterminedId

\* C19: the envelope is validated in the order object, id, jsonrpc, method,
\* params; the response to a request that fails several checks reports the
\* earliest of them, and a request that fails a check reaches no handler and
\* leaves the store and the invocations as they were.
FailedChecks(b) ==
    IF b.kind \notin {"object", "array"} THEN {1}
    ELSE { k \in 2..5 :
             \/ k = 2 /\ Prop(b, "id").kind \notin {"undefined", "null", "number", "string"}
             \/ k = 3 /\ Prop(b, "jsonrpc") # StringValue("2.0")
             \/ k = 4 /\ Prop(b, "method").kind # "string"
             \/ k = 5 /\ Prop(b, "params").kind \notin {"undefined", "null", "object", "array"} }

Earliest(checks) == CHOOSE k \in checks : \A j \in checks : k <= j

ReportOf(check) ==
    CASE check = 1 -> "Invalid Request"
      [] check = 2 -> "Invalid Request: id must be string or number"
      [] check = 3 -> "Invalid Request: jsonrpc must be \"2.0\""
      [] check = 4 -> "Invalid Request: method must be a string"
      [] check = 5 -> "Invalid params: must be object or array"

CanonicalNames == {"message/send", "tasks/get", "tasks/cancel", "tasks/list", "agent/card"}

AliasTable ==
    [m \in {"SendMessage", "sendMessage", "message.send"} |-> "message/send"]
      @@ [m \in {"GetTask", "getTask", "tasks.get"} |-> "tasks/get"]
      @@ [m \in {"CancelTask", "cancelTask", "tasks.cancel"} |-> "tasks/cancel"]
      @@ [m \in {"ListTasks", "listTasks", "tasks.list"} |-> "tasks/list"]
      @@ [m \in {"GetAgentCard", "getAgentCard", "agent.card"} |-> "agent/card"]

Routed == Posted /\ op.stage = "routed" /\ op.body.id.kind = "number"

C20_AliasActsAsCanonicalName ==
    Routed =>
        LET method == op.body.method.text
            id == op.body.id.value
        IN  /\ method \in DOMAIN AliasTable =>
                LET canonical == Dispatch(prev.tasks, prev.calls, prev.uuid, id, AliasTable[method],
                                          op.body.params, now)
                IN  /\ resp = canonical.resp
                    /\ tasks = canonical.tasks
                    /\ calls = canonical.calls
                    /\ uuid = canonical.uuid
            /\ method \notin DOMAIN AliasTable \cup CanonicalNames =>
                /\ resp.kind = "error" /\ resp.code = -32601 /\ resp.id = id
                /\ NothingDone

C20_Witness ==
    /\ Routed /\ op.body.method.text = "tasks.cancel"
    /\ resp.kind = "result"
    /\ \E t \in MapKeys(tasks) : StateOf(tasks, t) = CANCELED /\ StateOf(prev.tasks, t) = WORKING

\* ------------------------------------------------------------------------
\* Properties of the history of terminal tasks, checked under Spec
\* ------------------------------------------------------------------------
\* C30: once a stored task is COMPLETED, FAILED, CANCELED or REJECTED, no
\* step appends to its history: not a message/send that names it, not a
\* tasks/cancel and not the end of a callback.
C30_NoAppendAfterTerminal ==
    \A t \in MapKeys(prev.tasks) :
        StateOf(prev.tasks, t) \in Terminal =>
            MapHas(tasks, t) /\ MapGet(tasks, t).history = MapGet(prev.tasks, t).history

\* ------------------------------------------------------------------------
\* Properties of the router boundary, checked under SpecRpc
\* ------------------------------------------------------------------------
\* the last step ended a validated request: a routed request that was
\* answered at once, or the end of the callback of a message/send
EndedRequest ==
    \/ Posted /\ op.stage = "routed" /\ resp.kind # "none"
    \/ op.name \in {"return", "throw"}

\* C21: every validated request, whatever its method and whatever its
\* handling throws, ends with a JSON-RPC response (a result or an error
\* object, written with status 200): no exception or rejection escapes
\* routeMethod to the transport.
C21_RouterAnswersEveryRequest ==
    EndedRequest => resp.kind \in {"result", "error"} /\ http = 200

\* ------------------------------------------------------------------------
\* Properties of the relay client, checked under SpecRelay and, those that
\* say what eventually happens, under SpecRelayLive
\* ------------------------------------------------------------------------
Sockets == 1..MaxSockets

\* the last step settled the promise of the doConnect that opened socket s
ResolvedNow(s) ==
    client.sockets[s].promise = "resolved" /\ before.sockets[s].promise = "pending"

\* C22: the promise of connect() is resolved only by the 'message' of an
\* auth_ok frame on the socket that connect() opened, and when it is
\* resolved the getter connected is true.
C22_ResolvesOnAuthOk ==
    \A s \in Sockets :
        ResolvedNow(s) =>
            /\ rop.name = "message" /\ rop.socket = s /\ rop.msg.type = "auth_ok"
            /\ connected(client)

C22_Witness ==
    \E s \in Sockets :
        /\ ResolvedNow(s) /\ client.sockets[s].caller = "connect"
        /\ rop.name = "message" /\ rop.msg.type = "auth_ok"
        /\ connected(client)

\* the last step handled an auth_error on socket s, the socket of the
\* client, while the promise of the connect() that opened s was pending
AuthErrorWhilePending(s) ==
    /\ rop.name = "message" /\ rop.socket = s /\ rop.msg.type = "auth_error"
    /\ before.ws = s /\ ~client.isStopping
    /\ client.sockets[s].caller = "connect"
    /\ client.sockets[s].promise = "pending"

\* C23: when auth_error answers the auth frame while connect() is pending,
\* the socket is closed and the promise of connect() is eventually rejected.
C23_AuthErrorRejectsConnect ==
    \A s \in Sockets :
        /\ [](AuthErrorWhilePending(s) => client.sockets[s].readyState \in {"CLOSING", "CLOSED"})
        /\ AuthErrorWhilePending(s) ~> (client.sockets[s].promise = "rejected")

\* the last step was the 'close' of a socket that had received auth_error
ClosedAfterAuthError ==
    /\ rop.name \in {"close", "fail"}
    /\ "auth_error" \in before.sockets[rop.socket].handled

\* C24: after an auth_error and the close of the socket that follows it, no
\* reconnect timer is armed, whether autoReconnect is set or not.
C24_NoTimerAfterAuthError ==
    ClosedAfterAuthError => ~client.reconnectTimer /\ client.timers = 0

\* a doConnect whose socket is connecting or waiting for the answer to auth
InProgress(socket) == socket.readyState \in {"CONNECTING", "OPEN"} /\ socket.promise = "pending"

\* C26: at most one reconnect timer is pending, and the attempt a timer
\* starts is the only connection attempt in progress.
C26_OneTimerOneAttempt ==
    /\ client.timers <= 1
    /\ rop.name = "timer" =>
         \A s \in Sockets \ {rop.socket} : ~InProgress(before.sockets[s])

\* C27: from disconnect() until the next connect(), no reconnect timer is
\* pending, no timer starts a connection attempt and connected is false.
C27_NothingAfterDisconnect ==
    client.isStopping =>
        /\ ~client.reconnectTimer /\ client.timers = 0
        /\ rop.name # "timer"
        /\ ~connected(client)

\* the last step was the 'close' of a socket while autoReconnect is set and
\* the client is not stopping
ClosedUnexpectedly ==
    /\ rop.name \in {"close", "fail"}
    /\ client.config.autoReconnect /\ ~client.isStopping

\* the last step was a failure of the attempt of a timer: an 'error' of its
\* socket, its 'close' before auth_ok, or an auth_error
AttemptFailed ==
    /\ \/ rop.name \in {"error", "close", "fail"}
       \/ rop.name = "message" /\ rop.msg.type = "auth_error"
    /\ client.config.autoReconnect /\ ~client.isStopping
    /\ before.sockets[rop.socket].caller = "timer"
    /\ before.sockets[rop.socket].promise = "pending"

\* C28: after an unexpected close with autoReconnect set, a new connection
\* attempt is eventually started unless disconnect() is called; and after
\* an attempt of the timer failed, a timer is eventually armed again (or
\* has already started the next attempt) unless disconnect() is called.
C28_KeepsRetrying ==
    /\ ClosedUnexpectedly ~> (rop.name = "timer" \/ client.isStopping)
    /\ AttemptFailed ~> (client.reconnectTimer \/ rop.name = "timer" \/ client.isStopping)

C28_Witness ==
    /\ rop.name \in {"close", "fail"}
    /\ before.sockets[rop.socket].caller = "timer"
    /\ before.sockets[rop.socket].promise \in {"pending", "rejected"}
    /\ client.config.autoReconnect /\ ~client.isStopping
    /\ client.reconnectTimer

\* the frames the last step sent on socket s
NewFrames(s) ==
    IF before.sockets[s].readyState = "OPEN" /\ client.sockets[s].readyState = "OPEN"
       /\ Len(client.sockets[s].outbox) > Len(before.sockets[s].outbox)
    THEN SubSeq(client.sockets[s].outbox, Len(before.sockets[s].outbox) + 1, Len(client.sockets[s].outbox))
    ELSE <<>>

\* the a2a.response frame of an invocation whose handler ended with outcome
ResponseFrameOf(invocation, outcome) ==
    [type |-> "a2a.response",
     payload |->
       [id |-> invocation.requestId,
        result |-> IF outcome = "result" THEN invocation.jsonRpcRequest.method ELSE NoRpcResult,
        error |-> IF outcome = "result" THEN NoRpcError
                  ELSE IF outcome = "error" THEN [code |-> -32601, message |-> "Method not found"]
                  ELSE [code |-> -32603, message |-> "Error: handler failed"]]]

NoDuplicates(seq) == \A i, j \in 1..Len(seq) : seq[i] = seq[j] => i = j

\* C25: an a2a.response frame is sent only when an invocation of the handler
\* completes; it carries the relay id of the frame that started that
\* invocation and the result or error of that invocation (code -32603 if
\* the handler threw); and no received frame is answered twice.
C25_ResponseOfItsRequest ==
    /\ \A s \in Sockets : \A k \in 1..Len(NewFrames(s)) :
          NewFrames(s)[k].type = "a2a.response" =>
            /\ rop.name = "handler"
            /\ Len(NewFrames(s)) = 1
            /\ rop.invocation.frame \in 1..before.requests
            /\ rop.outcome # "throw unprintable"
            /\ NewFrames(s)[k] = ResponseFrameOf(rop.invocation, rop.outcome)
    /\ NoDuplicates(client.answered)

\* a response is sent for the request received second while the one
\* received first is still being handled
C25_Witness ==
    /\ rop.name = "handler"
    /\ client.answered # <<>>
    /\ client.answered[Len(client.answered)] = rop.invocation.frame
    /\ \E i \in 1..Len(client.handlers) : client.handlers[i].frame < rop.invocation.frame
    /\ \E s \in Sockets : Len(NewFrames(s)) = 1

\* two values with the same properties: a property that is not there and
\* one whose value is undefined read the same
RECURSIVE SameValue(_, _)
SameValue(a, b) ==
    /\ a.t = b.t
    /\ CASE a.t \in {"string", "boolean"} -> a.v = b.v
         [] a.t = "array" ->
              /\ Len(a.v) = Len(b.v)
              /\ \A i \in 1..Len(a.v) : SameValue(a.v[i], b.v[i])
         [] a.t = "object" ->
              \A key \in { a.v[i][1] : i \in 1..Len(a.v) } \cup { b.v[i][1] : i \in 1..Len(b.v) } :
                  SameValue(Read(a, key), Read(b, key))
         [] OTHER -> TRUE

\* C29: the frame the relay decodes from the text sendAuth sent has the
\* token, tenant and agentId of the configuration as token, tenant and
\* agent_id, and as agent_card an object with the properties of the
\* configured agent card.
C29_AuthFrameRoundTrip ==
    rop.name = "decode" =>
        /\ rop.frame.t = "object"
        /\ Read(rop.frame, TypeKey) = Str(<<"a", "u", "t", "h">>)
        /\ Read(rop.frame, TokenKey) = Str(client.config.token)
        /\ Read(rop.frame, TenantKey) = Str(client.config.tenant)
        /\ Read(rop.frame, AgentIdKey) = Str(client.config.agentId)
        /\ SameValue(Read(rop.frame, AgentCardKey), client.config.agentCard)

\* a frame is decoded whose token has a quotation mark and a backslash and
\* whose agent card has a description, input modes and a security scheme
C29_Witness ==
    /\ rop.name = "decode"
    /\ client.config.token = <<"\"", "\\">>
    /\ Read(rop.frame, AgentCardKey).t = "object"
    /\ Read(Read(rop.frame, AgentCardKey), DescriptionKey) = Str(<<"\\", "\"">>)
    /\ Read(Read(rop.frame, AgentCardKey), DefaultInputModesKey).t = "array"
    /\ Read(Read(rop.frame, AgentCardKey), SecuritySchemesKey).t = "object"

\* the last step was the return of a callback that answered {type: 'task'}
ReturnOfTask == op.name = "return" /\ op.type = "task"

\* C31: when the callback answers with a task of its own, the response of
\* message/send carries that task, and a tasks/get of its id then reports
\* the status.state of that task.
C31_TaskOverrideDeterminesState ==
    ReturnOfTask =>
        /\ resp = jsonRpcSuccess(prev.calls[op.call].id, WrappedTask(TaskView(op.task)))
        /\ \E got \in {HandleTasksGet(tasks, QueryId, [id |-> op.task.id, historyLength |-> NoLength])} :
             /\ got.kind = "result"
             /\ got.result.task.status.state = op.task.status.state

\* the last step was a message/send that names the stored, non-terminal task
\* t and carries a contextId that is not the one of t
SendWithOtherContext(t) ==
    /\ SendNaming(t)
    /\ StateOf(prev.tasks, t) \in NonTerminal
    /\ op.params.message.contextId # NoId
    /\ op.params.message.contextId # MapGet(prev.tasks, t).contextId

\* C32: a message/send that names a stored non-terminal task and carries
\* another contextId than the task's is answered with INVALID_PARAMS, changes
\* nothing and does not invoke the callback; and no step changes the
\* contextId of a stored task.
C32_ContextMismatchRejected ==
    \A t \in MapKeys(prev.tasks) :
        /\ SendWithOtherContext(t) =>
             /\ Refused(INVALID_PARAMS) /\ NothingDone
             /\ op.call = 0
        /\ MapHas(tasks, t) /\ MapGet(tasks, t).contextId = MapGet(prev.tasks, t).contextId

C32_Witness ==
    /\ \E t \in MapKeys(prev.tasks) : SendWithOtherContext(t)
    /\ resp.kind = "error" /\ resp.code = INVALID_PARAMS
    /\ resp.message = "contextId does not match task"

\* the offset at which the page of the last tasks/list starts, and the page
\* size it asks for
StartOffset == IF op.params.pageToken = <<>> THEN 0 ELSE ParseInt(op.params.pageToken).value
RequestedSize == IF op.params.pageSize = NoNumber THEN DefaultPageSize ELSE op.params.pageSize
Matching == { t \in MapKeys(tasks) : PassesFilters(MapGet(tasks, t), op.params) }

\* C33: in a tasks/list result, pageSize is the number of tasks of the page,
\* totalSize the number of stored tasks that pass the filters, and
\* nextPageToken is empty when the offset plus the requested size reaches
\* totalSize and the decimal text of that sum otherwise.
C33_PageSizeTotalSizeToken ==
    GotList =>
        /\ resp.result.list.pageSize = Len(resp.result.list.tasks)
        /\ resp.result.list.totalSize = Cardinality(Matching)
        /\ resp.result.list.nextPageToken = <<>> <=> StartOffset + RequestedSize >= Cardinality(Matching)
        /\ resp.result.list.nextPageToken # <<>> =>
             ParseInt(resp.result.list.nextPageToken) = [nan |-> FALSE, value |-> StartOffset + RequestedSize]

\* a second page that is shorter than asked for and the last one, of a
\* store of three tasks of which the filter passes two
C33_Witness ==
    /\ GotList
    /\ op.params.pageSize = 2 /\ op.params.pageToken = <<"1">>
    /\ resp.result.list.pageSize = 1 /\ resp.result.list.totalSize = 2
    /\ resp.result.list.nextPageToken = <<>>
    /\ Len(tasks) = 3

\* the last step created task t or changed its status.state
Transition(t) ==
    ~MapHas(prev.tasks, t) \/ StateOf(prev.tasks, t) # StateOf(tasks, t)

\* C34: a step that creates a task or changes its status.state sets
\* status.timestamp to the time of the step; the timestamp of a stored task
\* never decreases and is never ahead of the clock.
C34_TimestampOfLastTransition ==
    \A t \in MapKeys(tasks) :
        /\ Transition(t) => MapGet(tasks, t).status.timestamp = now
        /\ MapHas(prev.tasks, t) =>
             MapGet(tasks, t).status.timestamp >= MapGet(prev.tasks, t).status.timestamp
        /\ MapGet(tasks, t).status.timestamp <= now

\* sendStatus moves a task created earlier to another state, later
C34_Witness ==
    /\ op.name = "sendStatus"
    /\ \E t \in MapKeys(prev.tasks) :
         /\ Transition(t)
         /\ MapGet(prev.tasks, t).status.timestamp < now
         /\ MapGet(tasks, t).status.timestamp = now

\* the frames of type auth sent on socket s since it was opened
AuthFramesOn(s) ==
    { i \in 1..Len(client.sockets[s].outbox) : client.sockets[s].outbox[i].type = "auth" }

\* C35: when a socket opens, the auth frame is sent on it, as its first
\* frame, and no second auth frame is sent on it.
C35_AuthFirstAndOnce ==
    \A s \in Sockets :
        /\ (rop.name = "open" /\ rop.socket = s) => client.sockets[s].outbox = <<AuthFrame(client)>>
        /\ client.sockets[s].outbox # <<>> => AuthFramesOn(s) = {1}

NotAuthenticated(s) == "auth_ok" \notin before.sockets[s].handled

\* C36: on a connection that has not received auth_ok, an a2a.request frame
\* is not handed to the request handler, and no a2a.response and no pong frame
\* is sent on it: requests and pings are handled only after authentication.
C36_NothingBeforeAuthOk ==
    \A s \in 1..MaxSockets :
        /\ (rop.name = "message" /\ rop.socket = s /\ NotAuthenticated(s)
                /\ rop.msg.type \in {"a2a.request", "ping"})
               => /\ client.handlers = before.handlers
                  /\ client.sockets[s].outbox = before.sockets[s].outbox
        /\ (rop.name = "handler" /\ NotAuthenticated(s))
               => client.sockets[s].outbox = before.sockets[s].outbox

HandledFrame(s, types) == rop.name = "message" /\ rop.socket = s /\ rop.msg.type \in types

\* the state the claim calls connected / stopping / reconnect-timer, the
\* invocations of the request handler and the state of the connection
SameLifecycle(s) ==
    /\ client.isConnected = before.isConnected
    /\ client.isStopping = before.isStopping
    /\ client.reconnectTimer = before.reconnectTimer
    /\ client.handlers = before.handlers
    /\ client.requests = before.requests
    /\ client.sockets[s].readyState = before.sockets[s].readyState

OthersSilent(s) ==
    \A t \in 1..MaxSockets \ {s} : client.sockets[t].outbox = before.sockets[t].outbox

\* C37: a ping frame causes exactly one pong frame to be sent and nothing
\* else; a frame of an unknown type or a frame that cannot be decoded causes
\* no frame to be sent.  In both cases the connection stays open, the
\* connected, stopping and reconnect-timer state is unchanged and the request
\* handler is not invoked.
C37_PingPongAndIgnoredFrames ==
    \A s \in 1..MaxSockets :
        /\ (HandledFrame(s, {"ping"}) /\ before.sockets[s].readyState = "OPEN")
               => /\ Len(client.sockets[s].outbox) = Len(before.sockets[s].outbox) + 1
                  /\ client.sockets[s].outbox[Len(client.sockets[s].outbox)].type = "pong"
                  /\ OthersSilent(s)
                  /\ SameLifecycle(s)
        /\ HandledFrame(s, {"unknown", "undecodable"})
               => /\ client.sockets[s].outbox = before.sockets[s].outbox
                  /\ OthersSilent(s)
                  /\ SameLifecycle(s)

\* the unknown and undecodable half of C37 alone
IgnoredFramesHaveNoEffect ==
    \A s \in 1..MaxSockets :
        HandledFrame(s, {"unknown", "undecodable"})
            => /\ client.sockets[s].outbox = before.sockets[s].outbox
               /\ OthersSilent(s)
               /\ SameLifecycle(s)

\* ------------------------------------------------------------------------
\* The shape of the responses, checked under SpecRpc
\* ------------------------------------------------------------------------
\* the codes of A2A_ERROR_CODES and JSONRPC_ERROR_CODES
ErrorCodes ==
    {TASK_NOT_FOUND, TASK_NOT_CANCELABLE, -32003, UNSUPPORTED_OPERATION, -32005, -32006,
     -32007, -32008, -32009,
     PARSE_ERROR, INVALID_REQUEST, METHOD_NOT_FOUND, INVALID_PARAMS, INTERNAL_ERROR}

\* the last step wrote the response to a request
Answered == resp.kind # "none" /\ op.name \in {"http", "return", "throw"}

\* the request it answers has a string or a number as its id
HasRequestId ==
    IF Posted THEN Prop(op.body, "id").kind \in {"number", "string"} ELSE TRUE

RequestId == IF Posted THEN Prop(op.body, "id").value ELSE prev.calls[op.call].id

\* the response is a JSON-RPC response with exactly one of result and error,
\* and an error has one of the defined codes
OneOfResultAndError ==
    /\ resp.kind \in {"result", "error"}
    /\ resp.kind = "result" => resp.result # NoResult
    /\ resp.kind = "error" => resp.result = NoResult /\ resp.code \in ErrorCodes

\* C38: every response of the server to a JSON-RPC request has exactly one of
\* result and error, an error has one of the defined numeric codes, and the
\* response to a request whose id is a string or a number has the id of the
\* request.
C38_ResponseShapeAndId ==
    Answered =>
        /\ OneOfResultAndError
        /\ HasRequestId => resp.id = RequestId

\* the same for the responses built by jsonRpcSuccess and jsonRpcError to
\* requests that passed the authorization
ShapeAndIdOfAuthorized ==
    (Answered /\ resp.kind # "plain" /\ (Posted => op.authorized)) =>
        /\ OneOfResultAndError
        /\ HasRequestId => resp.id = RequestId

\* the JSON-RPC error that answers a rejected authorization has a fresh
\* random id, whatever the id of the request
IdOfUnauthorized ==
    (Posted /\ ~op.authorized) => OneOfResultAndError /\ resp.id = RandomUUID(prev.uuid)

\* ------------------------------------------------------------------------
\* Sockets that were superseded, checked under SpecRelay
\* ------------------------------------------------------------------------
\* the last step was the 'close' of socket s after connect() had made
\* another socket the current one
LateClose(s) ==
    /\ rop.name \in {"close", "fail"} /\ rop.socket = s
    /\ before.ws # NoSocket /\ before.ws # s
    /\ ~before.isStopping

Live == { s \in Sockets : client.sockets[s].readyState \in {"CONNECTING", "OPEN"} }

\* C39: the events of a superseded socket do not touch the current
\* connection.  When disconnect() is followed by connect() before the 'close'
\* of the old socket is delivered, that late 'close' does not clear the
\* reference to the new socket, does not set connected to false and does not
\* arm a reconnect timer; and the client never has more than one socket that
\* is open or connecting.
C39_SupersededSocketIsInert ==
    /\ \A s \in Sockets :
          LateClose(s) =>
              /\ client.ws = before.ws
              /\ client.isConnected = before.isConnected
              /\ client.reconnectTimer = before.reconnectTimer
              /\ client.timers = before.timers
    /\ Cardinality(Live) <= 1

\* ------------------------------------------------------------------------
\* Responses and reconnections, checked under SpecFrames
\* ------------------------------------------------------------------------
\* C40: an a2a.response is sent only on the connection on which its
\* a2a.request arrived; when that connection has closed before the request
\* handler completes, the response is dropped and not sent on a later
\* connection.  Stated for what a connection shows: a connection on which a
\* response is sent has received an a2a.request.
C40_ResponseOnConnectionOfRequest ==
    \A s \in Sockets : \A k \in 1..Len(NewFrames(s)) :
        NewFrames(s)[k].type = "a2a.response" => "a2a.request" \in client.sockets[s].handled

====
